---- MODULE Spec2Model ----
(***************************************************************************)
(* Call builders of stellar_sdk: the shared query state and paging         *)
(* setters (call_builder/base), the asynchronous and the synchronous       *)
(* CallBuilder, the earlier asynchronous BaseCallBuilder                   *)
(* (call_builder_async), and the two concrete asynchronous builders.       *)
(*                                                                         *)
(* The three CallBuilder classes are driven in lockstep: every operation   *)
(* is applied to one builder of each class, and the transport of each      *)
(* gives the same answer, so that their results can be compared.           *)
(***************************************************************************)
EXTENDS Integers, Sequences, FiniteSets, TLC

VARIABLES builder, ret, sent, last, server, stream, tasks, closed, twin, submit
vars == <<builder, ret, sent, last, server, stream, tasks, closed, twin, submit>>

(***************************************************************************)
(* Bounds of the model.                                                    *)
(***************************************************************************)
NumLinks == 2
MaxOps == 2
MaxPulls == 3
MaxCursor == 2

(***************************************************************************)
(* Python values: None, bool, int, str, dict (a function from keys), and a *)
(* reference to an object.                                                 *)
(***************************************************************************)
None == [t |-> "NoneType"]
PyBool(b) == [t |-> "bool", v |-> b]
PyInt(n) == [t |-> "int", v |-> n]
PyStr(s) == [t |-> "str", v |-> s]
PyDict(f) == [t |-> "dict", v |-> f]
PyList(s) == [t |-> "list", v |-> s]
Ref(id) == [t |-> "ref", v |-> id]
EmptyDict == PyDict(<<>>)

Return(x) == [t |-> "return", v |-> x]
Raise(e) == [t |-> "raise", v |-> e]

\* Truth value of a Python value, as `if x:` and `not x` test it.
Truthy(x) ==
    CASE x.t = "NoneType" -> FALSE
      [] x.t = "bool" -> x.v
      [] x.t = "int" -> x.v # 0
      [] x.t = "str" -> x.v # ""
      [] x.t = "dict" -> DOMAIN x.v # {}
      [] x.t = "list" -> x.v # <<>>
      [] OTHER -> TRUE

\* dict.get(key): the value, or None when the key is missing.
DictGet(d, k) == IF k \in DOMAIN d.v THEN d.v[k] ELSE None

Digit(d) ==
    CASE d = 0 -> "0" [] d = 1 -> "1" [] d = 2 -> "2" [] d = 3 -> "3"
      [] d = 4 -> "4" [] d = 5 -> "5" [] d = 6 -> "6" [] d = 7 -> "7"
      [] d = 8 -> "8" [] d = 9 -> "9"

RECURSIVE IntToStr(_)
IntToStr(n) ==
    IF n < 0 THEN "-" \o IntToStr(0 - n)
    ELSE IF n < 10 THEN Digit(n)
    ELSE IntToStr(n \div 10) \o Digit(n % 10)

\* str(value) of a Python value.
str(x) ==
    CASE x.t = "str" -> x.v
      [] x.t = "int" -> IntToStr(x.v)
      [] x.t = "bool" -> IF x.v THEN "True" ELSE "False"
      [] x.t = "NoneType" -> "None"

(***************************************************************************)
(* params is a Python dict of str to str: a set of <<key, value>> pairs.   *)
(* Assigning params[key] drops the pair the key had and adds the new one.  *)
(***************************************************************************)
DictKeys(d) == {p[1] : p \in d}
\* Mutant: the pair the key had is kept.
DictSetItem_append(d, k, x) == d \cup {<<k, x>>}

DictSetItem(d, k, x) == {p \in d : p[1] # k} \cup {<<k, x>>}

\* What a method did: the object after it, what it returned or raised, and
\* the transport requests it issued.
Res(b, r, s) == [b |-> b, ret |-> r, sent |-> s]

(***************************************************************************)
(* The transport (external): client.get(url, params) either raises         *)
(* ConnectionError or returns a Response with a status code and a body.    *)
(* The answer the transport gives is an input of every request.            *)
(***************************************************************************)
Request(url, params) == [method |-> "GET", url |-> url, params |-> params]
Response(status, body) == [status_code |-> status, body |-> body]
Malformed == [t |-> "malformed"]

Client_get(url, params, answer) == answer

\* Response.json(): the decoded body, or a decode error.
Response_json(resp) ==
    IF resp.body.t = "malformed" THEN Raise("JSONDecodeError")
    ELSE Return(resp.body)

\* The exception raise_request_exception raises for a response; "" for none.
raise_request_exception(resp) ==
    LET status_code == resp.status_code
    IN  IF 200 <= status_code /\ status_code < 300 THEN ""
        ELSE IF status_code = 404 THEN "NotFoundError"
        ELSE IF 400 <= status_code /\ status_code < 500 THEN "BadRequestError"
        ELSE IF 500 <= status_code /\ status_code < 600 THEN "BadResponseError"
        ELSE "UnknownRequestError"

\* urljoin_with_query(base, path): the path appended to the base URL.
urljoin_with_query(base, path) == IF path = "" THEN base ELSE base \o path

IsInstance(obj, cls) == cls \in obj.bases

(***************************************************************************)
(* call_builder/base/base_call_builder.py: BaseCallBuilder                 *)
(***************************************************************************)
BaseCallBuilder_init(self, horizon_url) ==
    self @@ [horizon_url |-> horizon_url,
             params |-> {},
             endpoint |-> "",
             prev_href |-> None,
             next_href |-> None]

\* Mutant: True and False are not told apart from other values.
_add_query_param_str(self, key, value) ==
    IF value.t = "NoneType" THEN self
    ELSE [self EXCEPT !.params = DictSetItem(@, key, PyStr(str(value)))]

_add_query_param(self, key, value) ==
    IF value.t = "NoneType" THEN self
    ELSE IF value.t = "bool" /\ value.v = TRUE
        THEN [self EXCEPT !.params = DictSetItem(@, key, PyStr("true"))]
    ELSE IF value.t = "bool" /\ value.v = FALSE
        THEN [self EXCEPT !.params = DictSetItem(@, key, PyStr("false"))]
    ELSE [self EXCEPT !.params = DictSetItem(@, key, PyStr(str(value)))]

\* Mutant: the cursor is written into the endpoint as a query string.
cursor_rebased(self, c) ==
    Res([self EXCEPT !.endpoint = @ \o "?cursor=" \o str(c)], Return(Ref(self.id)), <<>>)

cursor(self, c) ==
    Res(_add_query_param(self, "cursor", c), Return(Ref(self.id)), <<>>)

\* Mutant: the limit is stored as it is given, not as its string form.
limit_raw(self, l) ==
    Res([self EXCEPT !.params = DictSetItem(@, "limit", l)], Return(Ref(self.id)), <<>>)

limit(self, l) ==
    Res(_add_query_param(self, "limit", l), Return(Ref(self.id)), <<>>)

\* An argument the caller left out.
Omitted == [t |-> "omitted"]

\* Mutant: the default of desc is False.
order_default_asc(self, desc_arg) ==
    LET desc == IF desc_arg.t = "omitted" THEN PyBool(FALSE) ELSE desc_arg
        o == IF Truthy(desc) THEN "desc" ELSE "asc"
    IN  Res(_add_query_param(self, "order", PyStr(o)), Return(Ref(self.id)), <<>>)

order(self, desc_arg) ==
    LET desc == IF desc_arg.t = "omitted" THEN PyBool(TRUE) ELSE desc_arg
        o == IF Truthy(desc) THEN "desc" ELSE "asc"
    IN  Res(_add_query_param(self, "order", PyStr(o)), Return(Ref(self.id)), <<>>)

\* Mutant: a link object without href leaves the link as it was.
_check_pageable_keep(self, response) ==
    LET links == DictGet(response, "_links")
    IN  IF ~Truthy(links) THEN self
        ELSE LET prev_page == DictGet(links, "prev")
                 next_page == DictGet(links, "next")
                 s1 == IF Truthy(prev_page) /\ DictGet(prev_page, "href") # None
                       THEN [self EXCEPT !.prev_href = DictGet(prev_page, "href")]
                       ELSE self
             IN  IF Truthy(next_page) /\ DictGet(next_page, "href") # None
                 THEN [s1 EXCEPT !.next_href = DictGet(next_page, "href")]
                 ELSE s1

\* Mutant: both links are read from the "next" link object.
_check_pageable_swapped(self, response) ==
    LET links == DictGet(response, "_links")
    IN  IF ~Truthy(links) THEN self
        ELSE LET prev_page == DictGet(links, "next")
                 next_page == DictGet(links, "next")
                 s1 == IF Truthy(prev_page)
                       THEN [self EXCEPT !.prev_href = DictGet(prev_page, "href")]
                       ELSE self
             IN  IF Truthy(next_page)
                 THEN [s1 EXCEPT !.next_href = DictGet(next_page, "href")]
                 ELSE s1

\* Mutant: a link the response does not carry is reset to None.
_check_pageable_overwrite(self, response) ==
    LET links == DictGet(response, "_links")
    IN  IF ~Truthy(links) THEN [self EXCEPT !.prev_href = None, !.next_href = None]
        ELSE LET prev_page == DictGet(links, "prev")
                 next_page == DictGet(links, "next")
                 s1 == IF Truthy(prev_page)
                       THEN [self EXCEPT !.prev_href = DictGet(prev_page, "href")]
                       ELSE [self EXCEPT !.prev_href = None]
             IN  IF Truthy(next_page)
                 THEN [s1 EXCEPT !.next_href = DictGet(next_page, "href")]
                 ELSE [s1 EXCEPT !.next_href = None]

_check_pageable(self, response) ==
    LET links == DictGet(response, "_links")
    IN  IF ~Truthy(links) THEN self
        ELSE LET prev_page == DictGet(links, "prev")
                 next_page == DictGet(links, "next")
                 s1 == IF Truthy(prev_page)
                       THEN [self EXCEPT !.prev_href = DictGet(prev_page, "href")]
                       ELSE self
             IN  IF Truthy(next_page)
                 THEN [s1 EXCEPT !.next_href = DictGet(next_page, "href")]
                 ELSE s1

\* params is a mapping given as a sequence of <<key, value>> items, in the
\* mapping's enumeration order.
RECURSIVE _add_query_params(_, _)
_add_query_params(self, params) ==
    IF params = <<>> THEN self
    ELSE _add_query_params(_add_query_param(self, Head(params)[1], Head(params)[2]),
                           Tail(params))

(***************************************************************************)
(* call_builder/call_builder_async/call_builder.py: CallBuilder            *)
(***************************************************************************)
\* Mutant: the client is stored without being checked.
AsyncCallBuilder_init_unchecked(self, horizon_url, client) ==
    LET s1 == BaseCallBuilder_init(self, horizon_url)
    IN  Res(s1 @@ [client |-> client], Return(None), <<>>)

AsyncCallBuilder_init(self, horizon_url, client) ==
    LET s1 == BaseCallBuilder_init(self, horizon_url)
    IN  IF ~IsInstance(client, "BaseAsyncClient")
        THEN Res(s1, Raise("TypeError"), <<>>)
        ELSE Res(s1 @@ [client |-> client], Return(None), <<>>)

\* Mutant: the response's status is not looked at.
AsyncCallBuilder__call_unchecked(self, url, params, answer) ==
    LET raw_resp == Client_get(url, params, answer)
        req == <<Request(url, params)>>
    IN  IF raw_resp.t = "raise" THEN Res(self, raw_resp, req)
        ELSE LET resp == Response_json(raw_resp.v)
             IN  IF resp.t = "raise" THEN Res(self, resp, req)
                 ELSE Res(_check_pageable(self, resp.v), Return(resp.v), req)

\* Mutant: the envelope of a decodable body is absorbed before the status
\* is looked at.
AsyncCallBuilder__call_absorb_first(self, url, params, answer) ==
    LET raw_resp == Client_get(url, params, answer)
        req == <<Request(url, params)>>
    IN  IF raw_resp.t = "raise" THEN Res(self, raw_resp, req)
        ELSE LET resp == Response_json(raw_resp.v)
                 s1 == IF resp.t = "raise" THEN self ELSE _check_pageable(self, resp.v)
             IN  IF raise_request_exception(raw_resp.v) # ""
                 THEN Res(s1, Raise(raise_request_exception(raw_resp.v)), req)
                 ELSE IF resp.t = "raise" THEN Res(s1, resp, req)
                 ELSE Res(s1, Return(resp.v), req)

AsyncCallBuilder__call(self, url, params, answer) ==
    LET raw_resp == Client_get(url, params, answer)
        req == <<Request(url, params)>>
    IN  IF raw_resp.t = "raise" THEN Res(self, raw_resp, req)
        ELSE IF raise_request_exception(raw_resp.v) # ""
            THEN Res(self, Raise(raise_request_exception(raw_resp.v)), req)
        ELSE LET resp == Response_json(raw_resp.v)
             IN  IF resp.t = "raise" THEN Res(self, resp, req)
                 ELSE Res(_check_pageable(self, resp.v), Return(resp.v), req)

\* Mutant: a request that failed is sent a second time.
AsyncCallBuilder_call_retry(self, answer) ==
    LET url == urljoin_with_query(self.horizon_url, self.endpoint)
        r == AsyncCallBuilder__call(self, url, PyDict(self.params), answer)
    IN  IF r.ret.t = "raise" THEN Res(r.b, r.ret, r.sent \o r.sent) ELSE r

AsyncCallBuilder_call(self, answer) ==
    LET url == urljoin_with_query(self.horizon_url, self.endpoint)
    IN  AsyncCallBuilder__call(self, url, PyDict(self.params), answer)

\* Mutant: next() stores the link it follows as the cursor parameter.
AsyncCallBuilder_next_cursor(self, answer) ==
    IF self.next_href.t = "NoneType"
    THEN Res(self, Raise("NotPageableError"), <<>>)
    ELSE AsyncCallBuilder__call(_add_query_param(self, "cursor", self.next_href),
                                self.next_href, None, answer)

\* Mutant: next() does not test next_href.
AsyncCallBuilder_next_unguarded(self, answer) ==
    AsyncCallBuilder__call(self, self.next_href, None, answer)

AsyncCallBuilder_next(self, answer) ==
    IF self.next_href.t = "NoneType"
    THEN Res(self, Raise("NotPageableError"), <<>>)
    ELSE AsyncCallBuilder__call(self, self.next_href, None, answer)

\* Mutant: prev() sends the builder's params with the link.
AsyncCallBuilder_prev_withparams(self, answer) ==
    IF self.prev_href.t = "NoneType"
    THEN Res(self, Raise("NotPageableError"), <<>>)
    ELSE AsyncCallBuilder__call(self, self.prev_href, PyDict(self.params), answer)

AsyncCallBuilder_prev(self, answer) ==
    IF self.prev_href.t = "NoneType"
    THEN Res(self, Raise("NotPageableError"), <<>>)
    ELSE AsyncCallBuilder__call(self, self.prev_href, None, answer)

\* isinstance(other, self.__class__) for builders: the classes a builder's
\* class derives from, itself included.
ClassMro(cls) ==
    CASE cls = "RootCallBuilder" ->
            {"RootCallBuilder", "call_builder_async.CallBuilder", "base.BaseCallBuilder"}
      [] cls = "AccountsCallBuilder" ->
            {"AccountsCallBuilder", "call_builder_async.CallBuilder", "base.BaseCallBuilder"}
      [] cls = "LedgersCallBuilder" ->
            {"LedgersCallBuilder", "call_builder_async.CallBuilder", "base.BaseCallBuilder"}
      [] OTHER -> {cls}
IsInstanceOfClass(obj, cls) == cls \in ClassMro(obj.cls)

NotImplemented == [t |-> "NotImplementedType"]

\* Mutant: the endpoints are not compared.
AsyncCallBuilder_eq_noendpoint(self, other) ==
    IF ~IsInstanceOfClass(other, self.cls) THEN NotImplemented
    ELSE PyBool(/\ self.client = other.client
                /\ self.params = other.params
                /\ self.horizon_url = other.horizon_url)

AsyncCallBuilder_eq(self, other) ==
    IF ~IsInstanceOfClass(other, self.cls) THEN NotImplemented
    ELSE PyBool(/\ self.client = other.client
                /\ self.params = other.params
                /\ self.endpoint = other.endpoint
                /\ self.horizon_url = other.horizon_url)

\* Mutant: an endpoint is set as the other concrete builders do.
RootCallBuilder_init_named(self, horizon_url, client) ==
    LET r == AsyncCallBuilder_init(self, horizon_url, client)
    IN  IF r.ret.t = "raise" THEN r
        ELSE Res([r.b EXCEPT !.endpoint = "root"], Return(None), <<>>)

\* RootCallBuilder.__init__
RootCallBuilder_init(self, horizon_url, client) ==
    AsyncCallBuilder_init(self, horizon_url, client)

\* Mutant: the endpoint is not set.
AccountsCallBuilder_init_noendpoint(self, horizon_url, client) ==
    AsyncCallBuilder_init(self, horizon_url, client)

\* AccountsCallBuilder.__init__
AccountsCallBuilder_init(self, horizon_url, client) ==
    LET r == AsyncCallBuilder_init(self, horizon_url, client)
    IN  IF r.ret.t = "raise" THEN r
        ELSE Res([r.b EXCEPT !.endpoint = "accounts"], Return(None), <<>>)

\* LedgersCallBuilder.__init__: a resource builder that fixes the endpoint
\* path "ledgers".
LedgersCallBuilder_init(self, horizon_url, client) ==
    LET r == AsyncCallBuilder_init(self, horizon_url, client)
    IN  IF r.ret.t = "raise" THEN r
        ELSE Res([r.b EXCEPT !.endpoint = "ledgers"], Return(None), <<>>)

(***************************************************************************)
(* call_builder/call_builder_sync/call_builder.py: CallBuilder.  The class *)
(* has no base class: its attributes are the methods it defines itself.    *)
(***************************************************************************)
SyncCallBuilder_attrs ==
    {"__init__", "call", "__call", "stream", "next", "prev", "__eq__", "__str__"}

SyncCallBuilder_init(self, horizon_url, client) ==
    IF ~IsInstance(client, "BaseSyncClient")
    THEN Res(self, Raise("TypeError"), <<>>)
    ELSE Res(self @@ [client |-> client,
                      horizon_url |-> horizon_url,
                      params |-> {},
                      endpoint |-> "",
                      prev_href |-> None,
                      next_href |-> None], Return(None), <<>>)

\* Mutant: the response's status is not looked at.
SyncCallBuilder__call_unchecked(self, url, params, answer) ==
    LET raw_resp == Client_get(url, params, answer)
        req == <<Request(url, params)>>
    IN  IF raw_resp.t = "raise" THEN Res(self, raw_resp, req)
        ELSE LET resp == Response_json(raw_resp.v)
             IN  IF resp.t = "raise" THEN Res(self, resp, req)
                 ELSE IF "_check_pageable" \notin SyncCallBuilder_attrs
                     THEN Res(self, Raise("AttributeError"), req)
                 ELSE Res(_check_pageable(self, resp.v), Return(resp.v), req)

SyncCallBuilder__call(self, url, params, answer) ==
    LET raw_resp == Client_get(url, params, answer)
        req == <<Request(url, params)>>
    IN  IF raw_resp.t = "raise" THEN Res(self, raw_resp, req)
        ELSE IF raise_request_exception(raw_resp.v) # ""
            THEN Res(self, Raise(raise_request_exception(raw_resp.v)), req)
        ELSE LET resp == Response_json(raw_resp.v)
             IN  IF resp.t = "raise" THEN Res(self, resp, req)
                 ELSE IF "_check_pageable" \notin SyncCallBuilder_attrs
                     THEN Res(self, Raise("AttributeError"), req)
                 ELSE Res(_check_pageable(self, resp.v), Return(resp.v), req)

SyncCallBuilder_call(self, answer) ==
    LET url == urljoin_with_query(self.horizon_url, self.endpoint)
    IN  SyncCallBuilder__call(self, url, PyDict(self.params), answer)

SyncCallBuilder_next(self, answer) ==
    IF self.next_href.t = "NoneType"
    THEN Res(self, Raise("NotPageableError"), <<>>)
    ELSE SyncCallBuilder__call(self, self.next_href, None, answer)

SyncCallBuilder_prev(self, answer) ==
    IF self.prev_href.t = "NoneType"
    THEN Res(self, Raise("NotPageableError"), <<>>)
    ELSE SyncCallBuilder__call(self, self.prev_href, None, answer)

SyncCallBuilder_eq(self, other) ==
    IF ~IsInstanceOfClass(other, self.cls) THEN NotImplemented
    ELSE PyBool(/\ self.client = other.client
                /\ self.params = other.params
                /\ self.endpoint = other.endpoint
                /\ self.horizon_url = other.horizon_url)

(***************************************************************************)
(* call_builder_async/base_call_builder.py: BaseCallBuilder, the earlier   *)
(* asynchronous builder that holds state, setters and executor in one      *)
(* class.                                                                  *)
(***************************************************************************)
LegacyBaseCallBuilder_init(self, horizon_url, client) ==
    IF ~IsInstance(client, "BaseAsyncClient")
    THEN Res(self, Raise("TypeError"), <<>>)
    ELSE Res(self @@ [client |-> client,
                      horizon_url |-> horizon_url,
                      params |-> {},
                      endpoint |-> "",
                      prev_href |-> None,
                      next_href |-> None], Return(None), <<>>)

Legacy_add_query_param(self, key, value) ==
    IF value.t = "NoneType" THEN self
    ELSE IF value.t = "bool" /\ value.v = TRUE
        THEN [self EXCEPT !.params = DictSetItem(@, key, PyStr("true"))]
    ELSE IF value.t = "bool" /\ value.v = FALSE
        THEN [self EXCEPT !.params = DictSetItem(@, key, PyStr("false"))]
    ELSE [self EXCEPT !.params = DictSetItem(@, key, PyStr(str(value)))]

Legacy_cursor(self, c) ==
    Res(Legacy_add_query_param(self, "cursor", c), Return(Ref(self.id)), <<>>)

Legacy_limit(self, l) ==
    Res(Legacy_add_query_param(self, "limit", l), Return(Ref(self.id)), <<>>)

Legacy_order(self, desc_arg) ==
    LET desc == IF desc_arg.t = "omitted" THEN PyBool(TRUE) ELSE desc_arg
        o == IF Truthy(desc) THEN "desc" ELSE "asc"
    IN  Res(Legacy_add_query_param(self, "order", PyStr(o)),
            Return(Ref(self.id)), <<>>)

Legacy_check_pageable(self, response) ==
    LET links == DictGet(response, "_links")
    IN  IF ~Truthy(links) THEN self
        ELSE LET prev_page == DictGet(links, "prev")
                 next_page == DictGet(links, "next")
                 s1 == IF Truthy(prev_page)
                       THEN [self EXCEPT !.prev_href = DictGet(prev_page, "href")]
                       ELSE self
             IN  IF Truthy(next_page)
                 THEN [s1 EXCEPT !.next_href = DictGet(next_page, "href")]
                 ELSE s1

RECURSIVE Legacy_add_query_params(_, _)
Legacy_add_query_params(self, params) ==
    IF params = <<>> THEN self
    ELSE Legacy_add_query_params(
             Legacy_add_query_param(self, Head(params)[1], Head(params)[2]),
             Tail(params))

LegacyBaseCallBuilder__call(self, url, params, answer) ==
    LET raw_resp == Client_get(url, params, answer)
        req == <<Request(url, params)>>
    IN  IF raw_resp.t = "raise" THEN Res(self, raw_resp, req)
        ELSE IF raise_request_exception(raw_resp.v) # ""
            THEN Res(self, Raise(raise_request_exception(raw_resp.v)), req)
        ELSE LET resp == Response_json(raw_resp.v)
             IN  IF resp.t = "raise" THEN Res(self, resp, req)
                 ELSE Res(Legacy_check_pageable(self, resp.v), Return(resp.v), req)

LegacyBaseCallBuilder_call(self, answer) ==
    LET url == urljoin_with_query(self.horizon_url, self.endpoint)
    IN  LegacyBaseCallBuilder__call(self, url, PyDict(self.params), answer)

LegacyBaseCallBuilder_next(self, answer) ==
    IF self.next_href.t = "NoneType"
    THEN Res(self, Raise("NotPageableError"), <<>>)
    ELSE LegacyBaseCallBuilder__call(self, self.next_href, None, answer)

LegacyBaseCallBuilder_prev(self, answer) ==
    IF self.prev_href.t = "NoneType"
    THEN Res(self, Raise("NotPageableError"), <<>>)
    ELSE LegacyBaseCallBuilder__call(self, self.prev_href, None, answer)

\* Mutant: equality also compares the two links.
LegacyBaseCallBuilder_eq_links(self, other) ==
    IF ~IsInstanceOfClass(other, self.cls) THEN NotImplemented
    ELSE PyBool(/\ self.client = other.client
                /\ self.params = other.params
                /\ self.endpoint = other.endpoint
                /\ self.horizon_url = other.horizon_url
                /\ self.prev_href = other.prev_href
                /\ self.next_href = other.next_href)

LegacyBaseCallBuilder_eq(self, other) ==
    IF ~IsInstanceOfClass(other, self.cls) THEN NotImplemented
    ELSE PyBool(/\ self.client = other.client
                /\ self.params = other.params
                /\ self.endpoint = other.endpoint
                /\ self.horizon_url = other.horizon_url)

(***************************************************************************)
(* A second builder to compare a builder with: a distinct object that has  *)
(* the builder's values except in the fields named in `fields`.            *)
(***************************************************************************)
EqFields ==
    {"client", "params", "endpoint", "horizon_url", "prev_href", "next_href", "cls"}

OtherBuilder(self, fields) ==
    [self EXCEPT
        !.id = "other",
        !.client = IF "client" \in fields THEN @ @@ [instance |-> 2] ELSE @,
        !.params = IF "params" \in fields
                   THEN (IF @ = {} THEN {<<"limit", PyStr("1")>>} ELSE {})
                   ELSE @,
        !.endpoint = IF "endpoint" \in fields
                     THEN (IF @ = "accounts" THEN "" ELSE "accounts")
                     ELSE @,
        !.horizon_url = IF "horizon_url" \in fields
                        THEN "https://horizon.stellar.org/" ELSE @,
        !.prev_href = IF "prev_href" \in fields
                      THEN (IF @ = None THEN PyStr("https://x/accounts?cursor=0") ELSE None)
                      ELSE @,
        !.next_href = IF "next_href" \in fields
                      THEN (IF @ = None THEN PyStr("https://x/accounts?cursor=0") ELSE None)
                      ELSE @,
        !.cls = IF "cls" \in fields THEN "object" ELSE @]

(***************************************************************************)
(* Method lookup: the operation `o` applied to a builder of each class     *)
(* with the transport answering `a`.  A name the class does not define or  *)
(* inherit raises AttributeError.                                          *)
(***************************************************************************)
AsyncApply(self, o, a) ==
    CASE o.op = "cursor" -> cursor(self, o.arg)
      [] o.op = "limit" -> limit(self, o.arg)
      [] o.op = "order" -> order(self, o.arg)
      [] o.op = "_add_query_param" ->
            Res(_add_query_param(self, o.arg[1], o.arg[2]), Return(None), <<>>)
      [] o.op = "_add_query_params" ->
            Res(_add_query_params(self, o.arg), Return(None), <<>>)
      [] o.op = "call" -> AsyncCallBuilder_call(self, a)
      [] o.op = "next" -> AsyncCallBuilder_next(self, a)
      [] o.op = "prev" -> AsyncCallBuilder_prev(self, a)
      [] o.op = "__eq__" ->
            Res(self, Return(AsyncCallBuilder_eq(self, OtherBuilder(self, o.arg))), <<>>)

SyncApply(self, o, a) ==
    IF o.op \notin SyncCallBuilder_attrs
    THEN Res(self, Raise("AttributeError"), <<>>)
    ELSE CASE o.op = "call" -> SyncCallBuilder_call(self, a)
           [] o.op = "next" -> SyncCallBuilder_next(self, a)
           [] o.op = "prev" -> SyncCallBuilder_prev(self, a)
           [] o.op = "__eq__" ->
                 Res(self, Return(SyncCallBuilder_eq(self, OtherBuilder(self, o.arg))),
                     <<>>)

LegacyApply(self, o, a) ==
    CASE o.op = "cursor" -> Legacy_cursor(self, o.arg)
      [] o.op = "limit" -> Legacy_limit(self, o.arg)
      [] o.op = "order" -> Legacy_order(self, o.arg)
      [] o.op = "_add_query_param" ->
            Res(Legacy_add_query_param(self, o.arg[1], o.arg[2]), Return(None), <<>>)
      [] o.op = "_add_query_params" ->
            Res(Legacy_add_query_params(self, o.arg), Return(None), <<>>)
      [] o.op = "call" -> LegacyBaseCallBuilder_call(self, a)
      [] o.op = "next" -> LegacyBaseCallBuilder_next(self, a)
      [] o.op = "prev" -> LegacyBaseCallBuilder_prev(self, a)
      [] o.op = "__eq__" ->
            Res(self, Return(LegacyBaseCallBuilder_eq(self, OtherBuilder(self, o.arg))),
                <<>>)

Variants == {"async", "sync", "legacy"}

\* self == other for two builders of class v.
EqOf(v, self, other) ==
    CASE v = "async" -> AsyncCallBuilder_eq(self, other)
      [] v = "sync" -> SyncCallBuilder_eq(self, other)
      [] v = "legacy" -> LegacyBaseCallBuilder_eq(self, other)

Apply(v, self, o, a) ==
    CASE v = "async" -> AsyncApply(self, o, a)
      [] v = "sync" -> SyncApply(self, o, a)
      [] v = "legacy" -> LegacyApply(self, o, a)

(***************************************************************************)
(* Inputs.                                                                 *)
(***************************************************************************)
HorizonUrl == "https://horizon-testnet.stellar.org/"

AiohttpClient == [name |-> "AiohttpClient", bases |-> {"AiohttpClient", "BaseAsyncClient"}]
RequestsClient == [name |-> "RequestsClient", bases |-> {"RequestsClient", "BaseSyncClient"}]
NotAClient == [name |-> "object", bases |-> {"object"}]

\* The concrete asynchronous builders.
Kinds == {"RootCallBuilder", "AccountsCallBuilder"}

Url(i) == PyStr("https://x/accounts?cursor=" \o IntToStr(i))
Hrefs == {Url(i) : i \in 1..NumLinks}

\* A link object of the pagination envelope: {}, one without href, or one
\* with an href.  None stands for a link the envelope does not carry.
PageObjs ==
    {EmptyDict, PyDict("templated" :> PyBool(TRUE))}
        \cup {PyDict("href" :> h) : h \in Hrefs}
PageChoices == {None} \cup PageObjs

LinksOf(p, n) ==
    PyDict([k \in ({"prev" : x \in {p} \ {None}} \cup {"next" : x \in {n} \ {None}})
               |-> IF k = "prev" THEN p ELSE n])

Embedded == PyDict("records" :> PyStr("r"))
BodyOf(links) == PyDict(("_embedded" :> Embedded) @@ ("_links" :> links))

Bodies ==
    {PyDict("_embedded" :> Embedded)}
        \cup {BodyOf(LinksOf(p, n)) : p \in PageChoices, n \in PageChoices}
        \cup {BodyOf(PyDict("self" :> PyDict("href" :> Url(0))))}

ProblemBody == PyDict("title" :> PyStr("problem"))
SamplePage == BodyOf(LinksOf(PyDict("href" :> Url(1)), PyDict("href" :> Url(2))))

ErrorStatuses == {100, 199, 300, 399, 400, 403, 404, 405, 499, 500, 503, 599, 600}
OtherOkStatuses == {201, 299}

Responses ==
    {Response(200, b) : b \in Bodies \cup {Malformed}}
        \cup {Response(s, SamplePage) : s \in OtherOkStatuses}
        \cup {Response(s, ProblemBody) : s \in ErrorStatuses}

Answers == {Raise("ConnectionError")} \cup {Return(r) : r \in Responses}

CursorVals ==
    {None} \cup {PyInt(i) : i \in 1..MaxCursor}
           \cup {PyStr(IntToStr(i)) : i \in 1..MaxCursor}
LimitVals == {PyInt(1), PyInt(10)}
OrderVals == {Omitted, PyBool(TRUE), PyBool(FALSE)}
ParamKeys == {"cursor", "include_failed"}
ParamVals == {None, PyBool(TRUE), PyBool(FALSE), PyInt(1), PyStr("native")}
MappingVals == {None, PyBool(FALSE)}
Mappings ==
    {<<>>} \cup {<<<<k, x>>>> : k \in ParamKeys, x \in MappingVals}
           \cup {<<<<k1, x1>>, <<k2, x2>>>> :
                    <<k1, x1, k2, x2>> \in
                        {q \in ParamKeys \X MappingVals \X ParamKeys \X MappingVals :
                            q[1] # q[3]}}

\* The latest ledger as the server answers Server.fetch_base_fee's query.
LedgerBody ==
    PyDict(("_embedded" :>
               PyDict("records" :>
                   PyList(<<PyDict("base_fee_in_stroops" :> PyStr("100"))>>)))
           @@ ("_links" :> EmptyDict))
LedgerAnswers ==
    {Return(Response(200, LedgerBody)),
     Return(Response(200, SamplePage)),
     Return(Response(404, ProblemBody))}

\* Answers that fail in each of the ways a request can fail, one of them an
\* error status whose body has a pagination envelope, and answers that
\* succeed.
LinkAnswers ==
    {Raise("ConnectionError"),
     Return(Response(404, ProblemBody)),
     Return(Response(503, SamplePage)),
     Return(Response(200, Malformed)),
     Return(Response(200, SamplePage)),
     Return(Response(200, BodyOf(LinksOf(PyDict("href" :> Url(2)), None))))}

FewCursorVals == {None, PyInt(1)}
FewLimitVals == {PyInt(10)}
FewBodies ==
    {PyDict("_embedded" :> Embedded),
     BodyOf(LinksOf(None, PyDict("href" :> Url(1)))),
     BodyOf(LinksOf(PyDict("href" :> Url(1)), None)),
     BodyOf(LinksOf(PyDict("href" :> Url(2)), PyDict("templated" :> PyBool(TRUE))))}
FewAnswers ==
    {Raise("ConnectionError"),
     Return(Response(404, ProblemBody)),
     Return(Response(503, ProblemBody)),
     Return(Response(200, Malformed))}
        \cup {Return(Response(200, b)) : b \in FewBodies}

(***************************************************************************)
(* stream().  The transport's stream(url, params) opens an update channel  *)
(* for the URL and the params it is called with and hands out the events   *)
(* the server delivers, one per read, in the order of their delivery.  A   *)
(* generator is [st, chan, reads]: st is "created" while none of its code  *)
(* has run, chan is the channel it reads from, reads counts the reads of   *)
(* the transport made through it.                                          *)
(***************************************************************************)
\* The k-th event the server delivers on a channel.
Event(k) ==
    PyDict(("paging_token" :> PyStr(IntToStr(k)))
           @@ ("_links" :> LinksOf(PyDict("href" :> Url(k)), PyDict("href" :> Url(k)))))

\* What the transport does at one step of a stream: whether a channel it
\* is asked to open gets established, and whether a read of it yields the
\* next event.
OkStream == [open |-> "ok", read |-> "ok"]
StreamAnswers == [open : {"ok", "fail"}, read : {"ok", "fail"}]

Client_stream(url, params, a) ==
    IF a.open = "fail" THEN Raise("StreamClientError")
    ELSE Return([url |-> url, params |-> PyDict(params)])

\* One read of the transport through generator g; a generator that raised
\* is finished.
Client_stream_next(g, a) ==
    IF g.st = "done" THEN [g |-> g, ret |-> Raise("StopIteration")]
    ELSE IF a.read = "fail"
        THEN [g |-> [g EXCEPT !.st = "done", !.reads = @ + 1],
              ret |-> Raise("StreamClientError")]
    ELSE [g |-> [g EXCEPT !.reads = @ + 1], ret |-> Return(Event(g.reads + 1))]

\* CallBuilder.stream (asynchronous): an asynchronous generator function;
\* calling it runs none of its code.
AsyncCallBuilder_stream(self, a) ==
    [b |-> self, g |-> [st |-> "created", chan |-> None, reads |-> 0],
     ret |-> Return(Ref("generator"))]

\* Mutant: each element's pagination envelope is absorbed.
AsyncCallBuilder_stream_anext_absorbing(self, g, a) ==
    LET url == urljoin_with_query(self.horizon_url, self.endpoint)
        stream_ == IF g.st = "created" THEN Client_stream(url, self.params, a)
                   ELSE Return(g.chan)
    IN  IF g.st = "done" THEN [b |-> self, g |-> g, ret |-> Raise("StopAsyncIteration")]
        ELSE IF stream_.t = "raise"
            THEN [b |-> self, g |-> [g EXCEPT !.st = "done"], ret |-> stream_]
        ELSE LET r == Client_stream_next([g EXCEPT !.st = "running", !.chan = stream_.v], a)
             IN  [b |-> IF r.ret.t = "return" THEN _check_pageable(self, r.ret.v) ELSE self,
                  g |-> r.g, ret |-> r.ret]

\* An element asked of the generator stream() returned, up to the point
\* where it awaits the transport's read: on the first element the code
\* before the loop runs.  ret is None when that point is reached.
AsyncCallBuilder_stream_start(self, g, a) ==
    LET url == urljoin_with_query(self.horizon_url, self.endpoint)
        stream_ == IF g.st = "created" THEN Client_stream(url, self.params, a)
                   ELSE Return(g.chan)
    IN  IF g.st = "done" THEN [g |-> g, ret |-> Raise("StopAsyncIteration")]
        ELSE IF stream_.t = "raise"
            THEN [g |-> [g EXCEPT !.st = "done"], ret |-> stream_]
        ELSE [g |-> [g EXCEPT !.st = "running", !.chan = stream_.v], ret |-> None]

\* Mutant: an exception of the transport's read is caught and the read is
\* awaited again.
AsyncCallBuilder_stream_resume_rewait(self, g, a) ==
    LET r == Client_stream_next(g, a)
    IN  IF r.ret.t = "raise" THEN [b |-> self, g |-> g, ret |-> None]
        ELSE [b |-> self, g |-> r.g, ret |-> r.ret]

\* The rest of it: the transport's read answers and its result is yielded
\* or its exception raised.
AsyncCallBuilder_stream_resume(self, g, a) ==
    LET r == Client_stream_next(g, a)
    IN  [b |-> self, g |-> r.g, ret |-> r.ret]

\* One element asked of the generator stream() returned.  An exception of
\* the transport leaves the generator finished.
AsyncCallBuilder_stream_anext(self, g, a) ==
    LET s == AsyncCallBuilder_stream_start(self, g, a)
    IN  IF s.ret # None THEN [b |-> self, g |-> s.g, ret |-> s.ret]
        ELSE AsyncCallBuilder_stream_resume(self, s.g, a)

\* Mutant: a channel that is not established gives a stream without
\* elements.
SyncCallBuilder_stream_swallow(self, a) ==
    LET url == urljoin_with_query(self.horizon_url, self.endpoint)
        stream_ == Client_stream(url, self.params, a)
    IN  IF stream_.t = "raise"
        THEN [b |-> self, g |-> [st |-> "done", chan |-> None, reads |-> 0],
              ret |-> Return(Ref("generator"))]
        ELSE [b |-> self, g |-> [st |-> "running", chan |-> stream_.v, reads |-> 0],
              ret |-> Return(Ref("generator"))]

\* CallBuilder.stream (synchronous): calls the transport and returns the
\* transport's generator.
SyncCallBuilder_stream(self, a) ==
    LET url == urljoin_with_query(self.horizon_url, self.endpoint)
        stream_ == Client_stream(url, self.params, a)
    IN  IF stream_.t = "raise"
        THEN [b |-> self, g |-> [st |-> "none", chan |-> None, reads |-> 0],
              ret |-> stream_]
        ELSE [b |-> self, g |-> [st |-> "running", chan |-> stream_.v, reads |-> 0],
              ret |-> Return(Ref("generator"))]

SyncCallBuilder_stream_next(self, g, a) ==
    LET r == Client_stream_next(g, a)
    IN  [b |-> self, g |-> r.g, ret |-> r.ret]

LegacyBaseCallBuilder_stream(self, a) ==
    [b |-> self, g |-> [st |-> "created", chan |-> None, reads |-> 0],
     ret |-> Return(Ref("generator"))]

\* Mutant: two reads of the transport are made for each element.
LegacyBaseCallBuilder_stream_anext_skipping(self, g, a) ==
    LET url == urljoin_with_query(self.horizon_url, self.endpoint)
        stream_ == IF g.st = "created" THEN Client_stream(url, self.params, a)
                   ELSE Return(g.chan)
    IN  IF g.st = "done" THEN [b |-> self, g |-> g, ret |-> Raise("StopAsyncIteration")]
        ELSE IF stream_.t = "raise"
            THEN [b |-> self, g |-> [g EXCEPT !.st = "done"], ret |-> stream_]
        ELSE LET r1 == Client_stream_next([g EXCEPT !.st = "running", !.chan = stream_.v], a)
                 r == Client_stream_next(r1.g, a)
             IN  [b |-> self, g |-> r.g, ret |-> r.ret]

LegacyBaseCallBuilder_stream_anext(self, g, a) ==
    LET url == urljoin_with_query(self.horizon_url, self.endpoint)
        stream_ == IF g.st = "created" THEN Client_stream(url, self.params, a)
                   ELSE Return(g.chan)
    IN  IF g.st = "done" THEN [b |-> self, g |-> g, ret |-> Raise("StopAsyncIteration")]
        ELSE IF stream_.t = "raise"
            THEN [b |-> self, g |-> [g EXCEPT !.st = "done"], ret |-> stream_]
        ELSE LET r == Client_stream_next([g EXCEPT !.st = "running", !.chan = stream_.v], a)
             IN  [b |-> self, g |-> r.g, ret |-> r.ret]

StreamOf(v, self, a) ==
    CASE v = "async" -> AsyncCallBuilder_stream(self, a)
      [] v = "sync" -> SyncCallBuilder_stream(self, a)
      [] v = "legacy" -> LegacyBaseCallBuilder_stream(self, a)

\* The next element asked of the generator the consumer holds; a consumer
\* whose stream() raised holds none.
PullOf(v, self, g, a) ==
    IF g.st = "none" THEN [b |-> self, g |-> g, ret |-> Raise("StreamClientError")]
    ELSE CASE v = "async" -> AsyncCallBuilder_stream_anext(self, g, a)
           [] v = "sync" -> SyncCallBuilder_stream_next(self, g, a)
           [] v = "legacy" -> LegacyBaseCallBuilder_stream_anext(self, g, a)

(***************************************************************************)
(* Tasks.  An operation of the asynchronous builder runs in a task; it     *)
(* runs without interruption up to an await of the transport, where the    *)
(* task is suspended and other tasks run, and from the transport's answer  *)
(* to its end.                                                             *)
(***************************************************************************)
TaskIds == {"t1", "t2"}
IdleTask == [st |-> "idle", op |-> "", req |-> None, ret |-> None]

\* call(), next() or prev() up to `await self.client.get(url, params)`:
\* the request is made of what the builder holds now (its URL kept as a
\* str value); next() and prev() without a link raise before any await.
TaskBegin(self, op) ==
    LET r == AsyncApply(self, [op |-> op, arg |-> None], Raise("ConnectionError"))
    IN  IF r.sent = <<>>
        THEN [st |-> "done", op |-> op, req |-> None, ret |-> r.ret]
        ELSE [st |-> "waiting", op |-> op, ret |-> None,
              req |-> IF op = "call" THEN [r.sent[1] EXCEPT !.url = PyStr(@)]
                      ELSE r.sent[1]]

\* Mutant: only the prev link of the response has been absorbed when the
\* step ends.
AsyncCallBuilder__call_resume_partial(self, req, answer) ==
    LET r == AsyncCallBuilder__call(self, req.url, req.params, answer)
    IN  Res([self EXCEPT !.prev_href = r.b.prev_href], r.ret, r.sent)

\* __call from the answer of client.get to its end, on the builder as it
\* is when the task resumes.
AsyncCallBuilder__call_resume(self, req, answer) ==
    AsyncCallBuilder__call(self, req.url, req.params, answer)

\* Server.close: closes the client.
Client_close(c) == TRUE
Server_close(self, c) == Client_close(c)

\* What a closed client answers a request in flight and a read in flight.
ClosedAnswer(op) ==
    IF op = "pull" THEN [open |-> "ok", read |-> "fail"] ELSE Raise("ConnectionError")

(***************************************************************************)
(* Construction.                                                           *)
(***************************************************************************)
Construct(v, kind, client) ==
    CASE v = "async" /\ kind = "RootCallBuilder" ->
            RootCallBuilder_init([id |-> v, cls |-> kind], HorizonUrl, client)
      [] v = "async" /\ kind = "AccountsCallBuilder" ->
            AccountsCallBuilder_init([id |-> v, cls |-> kind], HorizonUrl, client)
      [] v = "async" /\ kind = "LedgersCallBuilder" ->
            LedgersCallBuilder_init([id |-> v, cls |-> kind], HorizonUrl, client)
      [] v = "sync" ->
            SyncCallBuilder_init([id |-> v, cls |-> "CallBuilder"], HorizonUrl, client)
      [] v = "legacy" ->
            LegacyBaseCallBuilder_init([id |-> v, cls |-> "BaseCallBuilder"],
                                       HorizonUrl, client)

(***************************************************************************)
(* server_async.py: Server, the facade that makes the asynchronous         *)
(* builders and hands each of them its one client.                         *)
(***************************************************************************)
Server_init(horizon_url, client_arg) ==
    LET client == IF client_arg = None THEN AiohttpClient ELSE client_arg
        self == [horizon_url |-> horizon_url, _client |-> client]
    IN  IF ~IsInstance(client, "BaseAsyncClient")
        THEN Res(self, Raise("TypeError"), <<>>)
        ELSE Res(self, Return(None), <<>>)

Server_root(self, id) ==
    RootCallBuilder_init([id |-> id, cls |-> "RootCallBuilder"],
                         self.horizon_url, self._client)

\* Mutant: the facade gives the builder a client of its own.
Server_accounts_ownclient(self, id) ==
    AccountsCallBuilder_init([id |-> id, cls |-> "AccountsCallBuilder"],
                             self.horizon_url, self._client @@ [instance |-> 2])

Server_accounts(self, id) ==
    AccountsCallBuilder_init([id |-> id, cls |-> "AccountsCallBuilder"],
                             self.horizon_url, self._client)

Server_ledgers(self, id) ==
    LedgersCallBuilder_init([id |-> id, cls |-> "LedgersCallBuilder"],
                            self.horizon_url, self._client)

(***************************************************************************)
(* server_async.py: Server.submit_transaction and its memo-required check. *)
(* An account address is the sequence of its characters; an operation has  *)
(* a class and a destination; a transaction has a memo and operations, and *)
(* a fee-bump transaction wraps one.                                       *)
(***************************************************************************)
MUXED_ACCOUNT_STARTING_LETTER == "M"

RECURSIVE StrOf(_)
StrOf(chars) == IF chars = <<>> THEN "" ELSE Head(chars) \o StrOf(Tail(chars))

startswith(chars, letter) == chars # <<>> /\ Head(chars) = letter

CheckedOperations ==
    {"Payment", "AccountMerge", "PathPaymentStrictSend", "PathPaymentStrictReceive"}

\* The pairs the generator yields from the operation at `index` on (an
\* index of Python is one less than a position of the sequence).
RECURSIVE DestinationsFrom(_, _, _)
DestinationsFrom(operations, index, destinations) ==
    IF index > Len(operations) THEN <<>>
    ELSE LET operation == operations[index]
         IN  IF operation.cls \notin CheckedOperations
             THEN DestinationsFrom(operations, index + 1, destinations)
             ELSE IF operation.destination \in destinations
                 THEN DestinationsFrom(operations, index + 1, destinations)
             ELSE <<(<<index - 1, operation.destination>>)>>
                     \o DestinationsFrom(operations, index + 1,
                                         destinations \cup {operation.destination})

Server__get_check_memo_required_destinations(transaction) ==
    DestinationsFrom(transaction.operations, 1, {})

Server__check_destination_memo(account_resp, index, destination) ==
    IF "data" \notin DOMAIN account_resp.v THEN Raise("KeyError")
    ELSE LET data == account_resp.v["data"]
         IN  IF DictGet(data, "config.memo_required") = PyStr("MQ==")
             THEN [t |-> "raise", v |-> "AccountRequiresMemoError",
                   destination |-> destination, index |-> index]
             ELSE Return(None)

\* accounts().account_id(destination): the builder of the lookup.
AccountsCallBuilder_account_id(self, account_id) ==
    [self EXCEPT !.endpoint = "accounts/" \o account_id]

LookupBuilder(self, destination) ==
    AccountsCallBuilder_account_id(Server_accounts(self, "lookup").b, StrOf(destination))

\* client.post(url, data)
PostRequest(url, data) == [method |-> "POST", url |-> url, data |-> data]
Client_post(url, data, answer) == answer

IdleSubmit ==
    [st |-> "idle", envelope |-> None, skip |-> FALSE, todo |-> <<>>,
     log |-> <<>>, ret |-> None]

\* The rest of __submit_transaction after the check: up to
\* `await self._client.post(url=url, data=data)`.
Server__submit_transaction_post(self, s) ==
    LET url == urljoin_with_query(self.horizon_url, "transactions")
        data == PyDict("tx" :> PyStr(s.envelope.xdr))
    IN  [s EXCEPT !.st = "post", !.todo = <<>>,
                  !.log = Append(@, PostRequest(url, data))]

\* The loop of __check_memo_required over the pairs `todo` the generator
\* has still to yield: up to the await of the next lookup, or through the
\* end of the check to the await of the POST.
RECURSIVE Server__check_memo_required_loop(_, _, _)
Server__check_memo_required_loop(self, s, todo) ==
    IF todo = <<>> THEN Server__submit_transaction_post(self, s)
    ELSE IF startswith(Head(todo)[2], MUXED_ACCOUNT_STARTING_LETTER)
        THEN Server__check_memo_required_loop(self, s, Tail(todo))
    ELSE [s EXCEPT !.st = "lookup", !.todo = todo,
                   !.log = @ \o AsyncCallBuilder_call(LookupBuilder(self, Head(todo)[2]),
                                                      Raise("ConnectionError")).sent]

Server__check_memo_required(self, s, tx) ==
    LET transaction == IF tx.cls = "FeeBumpTransaction"
                       THEN tx.inner_transaction_envelope.transaction ELSE tx
    IN  IF ~(transaction.memo = None \/ transaction.memo.t = "NoneMemo")
        THEN Server__submit_transaction_post(self, s)
        ELSE Server__check_memo_required_loop(self, s,
                 Server__get_check_memo_required_destinations(transaction))

\* __submit_transaction up to its first await.
Server__submit_transaction(self, transaction_envelope, skip_memo_required_check) ==
    LET s == [IdleSubmit EXCEPT !.envelope = transaction_envelope,
                                !.skip = skip_memo_required_check]
        tx == transaction_envelope.transaction
    IN  IF ~skip_memo_required_check
        THEN Server__check_memo_required(self, s, tx)
        ELSE Server__submit_transaction_post(self, s)

\* Mutant: a destination that is not found fails the submission.
Server__check_memo_required_resume_strict(self, s, answer) ==
    LET index == Head(s.todo)[1]
        destination == Head(s.todo)[2]
        r == AsyncCallBuilder_call(LookupBuilder(self, destination), answer)
    IN  IF r.ret.t = "raise"
        THEN [s EXCEPT !.st = "done", !.ret = r.ret]
        ELSE LET c == Server__check_destination_memo(r.ret.v, index, destination)
             IN  IF c.t = "raise" THEN [s EXCEPT !.st = "done", !.ret = c]
                 ELSE Server__check_memo_required_loop(self, s, Tail(s.todo))

\* __check_memo_required from the answer to the lookup it awaits.
Server__check_memo_required_resume(self, s, answer) ==
    LET index == Head(s.todo)[1]
        destination == Head(s.todo)[2]
        r == AsyncCallBuilder_call(LookupBuilder(self, destination), answer)
    IN  IF r.ret = Raise("NotFoundError")
        THEN Server__check_memo_required_loop(self, s, Tail(s.todo))
        ELSE IF r.ret.t = "raise"
            THEN [s EXCEPT !.st = "done", !.ret = r.ret]
        ELSE LET c == Server__check_destination_memo(r.ret.v, index, destination)
             IN  IF c.t = "raise" THEN [s EXCEPT !.st = "done", !.ret = c]
                 ELSE Server__check_memo_required_loop(self, s, Tail(s.todo))

\* __submit_transaction from the answer to the POST it awaits.
Server__submit_transaction_resume(self, s, answer) ==
    LET resp == Client_post(s.log[Len(s.log)].url, s.log[Len(s.log)].data, answer)
    IN  IF resp.t = "raise" THEN [s EXCEPT !.st = "done", !.ret = resp]
        ELSE IF raise_request_exception(resp.v) # ""
            THEN [s EXCEPT !.st = "done", !.ret = Raise(raise_request_exception(resp.v))]
        ELSE [s EXCEPT !.st = "done", !.ret = Response_json(resp.v)]

\* The client argument of a construction: left out, an asynchronous client,
\* a synchronous client, or an object that is no client.
ClientArgs == {None, AiohttpClient, RequestsClient, NotAClient}

\* The stream of a builder: the generator its latest stream() returned,
\* the elements the consumer obtained from it, and the params the builder
\* held when stream() was called.  No stream() has been called yet.
NoStream == [st |-> "none", chan |-> None, reads |-> 0, got |-> <<>>,
             called_with |-> None]
Generator(s) == [st |-> s.st, chan |-> s.chan, reads |-> s.reads]

\* The transport of each builder family.
ClientFor(v) == IF v = "sync" THEN RequestsClient ELSE AiohttpClient

\* The Server is constructed with the client argument c; if that succeeds
\* it makes the asynchronous builder, and the builders of the other classes
\* are constructed with a client of their family.  If it fails, every
\* builder is constructed directly with the argument the Server refused.
Made(v, kind, srv, c) ==
    IF v = "async" /\ srv.ret.t = "return"
    THEN CASE kind = "RootCallBuilder" -> Server_root(srv.b, v)
           [] kind = "AccountsCallBuilder" -> Server_accounts(srv.b, v)
           [] kind = "LedgersCallBuilder" -> Server_ledgers(srv.b, v)
    ELSE Construct(v, kind, IF srv.ret.t = "return" THEN ClientFor(v) ELSE c)

InitOf(kinds) ==
    \E kind \in kinds, c \in ClientArgs :
        /\ server = Server_init(HorizonUrl, c)
        /\ builder = [v \in Variants |-> Made(v, kind, Server_init(HorizonUrl, c), c).b]
        /\ ret = [v \in Variants |-> Made(v, kind, Server_init(HorizonUrl, c), c).ret]
        /\ sent = [v \in Variants |-> <<>>]
        /\ stream = [v \in Variants |-> NoStream]
        /\ tasks = [t \in TaskIds |-> IdleTask]
        /\ closed = FALSE
        /\ twin = [v \in Variants |-> None]
        /\ submit = IdleSubmit
        /\ last = [op |-> "__init__", arg |-> [kind |-> kind, client |-> c],
                   answer |-> None, repeat |-> "other"]

Init == InitOf(Kinds)

\* Construction succeeded: the builders exist.
Built == \A v \in Variants : "client" \in DOMAIN builder[v]

\* The operation o applied to the builder of each class.  last records the
\* operation, its argument, the transport's answer, and whether it repeats
\* the operation before it ("same": same operation and inputs; "differs":
\* same operation, other inputs; "other": another operation).
Do(o, a) ==
    /\ builder' = [v \in Variants |-> Apply(v, builder[v], o, a).b]
    /\ ret' = [v \in Variants |-> Apply(v, builder[v], o, a).ret]
    /\ sent' = [v \in Variants |-> Apply(v, builder[v], o, a).sent]
    /\ last' = [op |-> o.op, arg |-> o.arg, answer |-> a,
                 repeat |-> IF last.op # o.op THEN "other"
                            ELSE IF last.arg = o.arg /\ last.answer = a THEN "same"
                            ELSE "differs"]
    /\ UNCHANGED <<server, stream, tasks, closed, twin, submit>>

Cursor(vals) ==
    \E c \in vals :
        /\ Built
        /\ Do([op |-> "cursor", arg |-> c], None)

Limit(vals) ==
    \E l \in vals :
        /\ Built
        /\ Do([op |-> "limit", arg |-> l], None)

Order(vals) ==
    \E d \in vals :
        /\ Built
        /\ Do([op |-> "order", arg |-> d], None)

AddQueryParam(keys, vals) ==
    \E k \in keys, x \in vals :
        /\ Built
        /\ Do([op |-> "_add_query_param", arg |-> <<k, x>>], None)

AddQueryParams ==
    \E m \in Mappings :
        /\ Built
        /\ Do([op |-> "_add_query_params", arg |-> m], None)

Call(answers) ==
    \E a \in answers :
        /\ Built
        /\ Do([op |-> "call", arg |-> None], a)

NextPage(answers) ==
    \E a \in answers :
        /\ Built
        /\ Do([op |-> "next", arg |-> None], a)

PrevPage(answers) ==
    \E a \in answers :
        /\ Built
        /\ Do([op |-> "prev", arg |-> None], a)

\* The builder compared with a second builder that differs from it in the
\* fields of one of `fieldsets`.
Equals(fieldsets) ==
    \E fields \in fieldsets :
        /\ Built
        /\ Do([op |-> "__eq__", arg |-> fields], None)

\* stream() called on the builder of each class.
Stream(answers) ==
    \E a \in answers :
        /\ Built
        /\ builder' = [v \in Variants |-> StreamOf(v, builder[v], a).b]
        /\ stream' = [v \in Variants |->
                         StreamOf(v, builder[v], a).g
                             @@ [got |-> <<>>, called_with |-> PyDict(builder[v].params)]]
        /\ ret' = [v \in Variants |-> StreamOf(v, builder[v], a).ret]
        /\ sent' = [v \in Variants |-> <<>>]
        /\ last' = [op |-> "stream", arg |-> None, answer |-> a,
                     repeat |-> IF last.op = "stream" THEN "same" ELSE "other"]
        /\ UNCHANGED <<server, tasks, closed, twin, submit>>

\* The consumer asks the generator of each builder for its next element.
Pull(answers) ==
    \E a \in answers :
        /\ Built
        /\ \E v \in Variants : stream[v].st # "none"
        /\ \A v \in Variants : stream[v].reads < MaxPulls
        /\ builder' = [v \in Variants |->
                          PullOf(v, builder[v], Generator(stream[v]), a).b]
        /\ stream' = [v \in Variants |->
                         LET r == PullOf(v, builder[v], Generator(stream[v]), a)
                         IN  r.g @@ [got |-> IF r.ret.t = "return"
                                             THEN Append(stream[v].got, r.ret.v)
                                             ELSE stream[v].got,
                                     called_with |-> stream[v].called_with]]
        /\ ret' = [v \in Variants |->
                      PullOf(v, builder[v], Generator(stream[v]), a).ret]
        /\ sent' = [v \in Variants |-> <<>>]
        /\ last' = [op |-> "pull", arg |-> None, answer |-> a,
                     repeat |-> IF last.op = "pull" THEN "same" ELSE "other"]
        /\ UNCHANGED <<server, tasks, closed, twin, submit>>

\* Task t invokes call(), next() or prev() on the asynchronous builder and
\* runs to the await of the transport; the request it made is kept with
\* the task.
Begin(t, ops) ==
    \E op \in ops :
        /\ Built
        /\ tasks[t].st # "waiting"
        /\ tasks' = [tasks EXCEPT ![t] = TaskBegin(builder["async"], op)]
        /\ last' = [op |-> "begin", arg |-> <<t, op>>, answer |-> None,
                     repeat |-> "other"]
        /\ UNCHANGED <<builder, ret, sent, server, stream, closed, twin, submit>>

\* Task t asks the generator of the asynchronous builder for an element
\* and runs to the await of the transport's read.  A generator serves one
\* request at a time.
BeginPull(t) ==
    LET s == AsyncCallBuilder_stream_start(builder["async"],
                                           Generator(stream["async"]), OkStream)
    IN  /\ Built
        /\ tasks[t].st # "waiting"
        /\ stream["async"].st # "none"
        /\ stream["async"].reads < MaxPulls
        /\ \A u \in TaskIds : ~(tasks[u].st = "waiting" /\ tasks[u].op = "pull")
        /\ tasks' = [tasks EXCEPT ![t] =
                         [st |-> IF s.ret = None THEN "waiting" ELSE "done",
                          op |-> "pull", req |-> None, ret |-> s.ret]]
        /\ stream' = [stream EXCEPT !["async"] =
                          s.g @@ [got |-> @.got, called_with |-> @.called_with]]
        /\ last' = [op |-> "begin", arg |-> <<t, "pull">>, answer |-> None,
                     repeat |-> "other"]
        /\ UNCHANGED <<builder, ret, sent, server, closed, twin, submit>>

\* The transport answers a; task t, suspended at it, runs on to the end of
\* its operation (or to its next await).
Finish(t, a) ==
    /\ Built
    /\ tasks[t].st = "waiting"
    /\ IF tasks[t].op = "pull"
       THEN LET r == AsyncCallBuilder_stream_resume(builder["async"],
                                                    Generator(stream["async"]), a)
            IN  /\ builder' = [builder EXCEPT !["async"] = r.b]
                /\ stream' = [stream EXCEPT !["async"] =
                                  r.g @@ [got |-> IF r.ret # None /\ r.ret.t = "return"
                                                  THEN Append(@.got, r.ret.v)
                                                  ELSE @.got,
                                          called_with |-> @.called_with]]
                /\ tasks' = [tasks EXCEPT ![t] =
                                 IF r.ret = None THEN @
                                 ELSE [@ EXCEPT !.st = "done", !.ret = r.ret]]
                /\ ret' = [ret EXCEPT !["async"] = IF r.ret = None THEN @ ELSE r.ret]
       ELSE LET r == AsyncCallBuilder__call_resume(builder["async"], tasks[t].req, a)
            IN  /\ builder' = [builder EXCEPT !["async"] = r.b]
                /\ tasks' = [tasks EXCEPT ![t] = [@ EXCEPT !.st = "done", !.ret = r.ret]]
                /\ ret' = [ret EXCEPT !["async"] = r.ret]
                /\ UNCHANGED stream
    /\ last' = [op |-> "resume", arg |-> <<t, tasks[t].op>>, answer |-> a,
                 repeat |-> "other"]
    /\ UNCHANGED <<sent, server, closed, twin, submit>>

\* The transport, its client open, answers the request or read of task t.
Resume(t, answers, reads) ==
    /\ ~closed
    /\ \E a \in (IF tasks[t].op = "pull" THEN reads ELSE answers) : Finish(t, a)

\* The transport, its client closed, fails the request or read of task t.
Abort(t) ==
    /\ closed
    /\ Finish(t, ClosedAnswer(tasks[t].op))

\* Server.close()
Close ==
    /\ Built
    /\ ~closed
    /\ closed' = Server_close(server.b, closed)
    /\ last' = [op |-> "close", arg |-> None, answer |-> None, repeat |-> "other"]
    /\ UNCHANGED <<builder, ret, sent, server, stream, tasks, twin, submit>>

\* Transactions of up to MaxOps operations, as they are or wrapped in a
\* fee-bump transaction, and the answers to lookups and to the POST.
Addresses == {<<"G", "A">>, <<"G", "B">>, <<"M", "A">>}
Operation(cls, destination) == [cls |-> cls, destination |-> destination]
Operations ==
    {Operation("Payment", <<"G", "A">>),
     Operation("Payment", <<"G", "B">>),
     Operation("AccountMerge", <<"G", "A">>),
     Operation("PathPaymentStrictSend", <<"M", "A">>),
     Operation("PathPaymentStrictReceive", <<"G", "B">>),
     Operation("CreateAccount", <<"G", "A">>)}
Memos == {None, [t |-> "NoneMemo"], [t |-> "TextMemo"]}
Transactions ==
    {[cls |-> "Transaction", memo |-> m, operations |-> o] :
        m \in Memos, o \in UNION {[1..n -> Operations] : n \in 0..MaxOps}}
Envelope(tx) == [xdr |-> "AAAA", transaction |-> tx]
FeeBump(tx) == [cls |-> "FeeBumpTransaction", inner_transaction_envelope |-> Envelope(tx)]
Envelopes ==
    {Envelope(tx) : tx \in Transactions} \cup {Envelope(FeeBump(tx)) : tx \in Transactions}

AccountBody(data) == PyDict(("id" :> PyStr("G")) @@ ("data" :> data))
LookupAnswers ==
    {Return(Response(404, ProblemBody)),
     Return(Response(503, ProblemBody)),
     Return(Response(200, AccountBody(EmptyDict))),
     Return(Response(200, AccountBody(PyDict("config.memo_required" :> PyStr("MQ=="))))),
     Return(Response(200, AccountBody(PyDict("config.memo_required" :> PyStr("MA==")))))}
PostAnswers ==
    {Raise("ConnectionError"),
     Return(Response(200, PyDict("hash" :> PyStr("h")))),
     Return(Response(400, ProblemBody))}

\* server.submit_transaction(envelope, skip_memo_required_check), up to
\* its first await.
Submit(envelopes, skips) ==
    /\ Built
    /\ submit.st = "idle"
    /\ \E e \in envelopes, skip \in skips :
          /\ submit' = Server__submit_transaction(server.b, e, skip)
          /\ last' = [op |-> "submit_transaction", arg |-> skip, answer |-> None,
                       repeat |-> "other"]
    /\ UNCHANGED <<builder, ret, sent, server, stream, tasks, closed, twin>>

\* The transport answers the lookup the submission awaits.
LookupAnswer(answers) ==
    \E a \in answers :
        /\ Built
        /\ submit.st = "lookup"
        /\ submit' = Server__check_memo_required_resume(server.b, submit, a)
        /\ last' = [op |-> "lookup", arg |-> None, answer |-> a, repeat |-> "other"]
        /\ UNCHANGED <<builder, ret, sent, server, stream, tasks, closed, twin>>

\* The transport answers the POST the submission awaits.
PostAnswer(answers) ==
    \E a \in answers :
        /\ Built
        /\ submit.st = "post"
        /\ submit' = Server__submit_transaction_resume(server.b, submit, a)
        /\ last' = [op |-> "post", arg |-> None, answer |-> a, repeat |-> "other"]
        /\ UNCHANGED <<builder, ret, sent, server, stream, tasks, closed, twin>>

\* A second builder of class v: for the asynchronous class the one a
\* further factory call on the Server returns, for the other classes one
\* constructed as the first was.
MadeTwin(v, kind) ==
    IF v = "async"
    THEN CASE kind = "RootCallBuilder" -> Server_root(server.b, "other")
           [] kind = "AccountsCallBuilder" -> Server_accounts(server.b, "other")
    ELSE LET r == Construct(v, kind, ClientFor(v)) IN [r EXCEPT !.b.id = "other"]

Twinned == \A v \in Variants : twin[v] # None

\* server.root() / server.accounts(): a second builder is made.
Factory(kinds) ==
    \E kind \in kinds :
        /\ Built
        /\ twin' = [v \in Variants |-> MadeTwin(v, kind).b]
        /\ ret' = [v \in Variants |-> Return(Ref("other"))]
        /\ sent' = [v \in Variants |-> <<>>]
        /\ last' = [op |-> "factory", arg |-> kind, answer |-> None, repeat |-> "other"]
        /\ UNCHANGED <<builder, server, stream, tasks, closed, submit>>

\* An operation of `os` applied to the second builder of each class.
OnOther(os, answers) ==
    \E o \in os :
        \E a \in (IF o.op \in {"call", "next", "prev"} THEN answers ELSE {None}) :
            /\ Built
            /\ Twinned
            /\ twin' = [v \in Variants |-> Apply(v, twin[v], o, a).b]
            /\ ret' = [v \in Variants |-> Apply(v, twin[v], o, a).ret]
            /\ sent' = [v \in Variants |-> Apply(v, twin[v], o, a).sent]
            /\ last' = [op |-> "on_other", arg |-> <<o.op, o.arg>>, answer |-> a,
                         repeat |-> "other"]
            /\ UNCHANGED <<builder, server, stream, tasks, closed, submit>>

\* builder == second builder, for each class.
Compare ==
    /\ Built
    /\ Twinned
    /\ ret' = [v \in Variants |-> Return(EqOf(v, builder[v], twin[v]))]
    /\ sent' = [v \in Variants |-> <<>>]
    /\ last' = [op |-> "compare", arg |-> None, answer |-> None, repeat |-> "other"]
    /\ UNCHANGED <<builder, server, stream, tasks, closed, twin, submit>>

\* The setters alone, over all their inputs.
NextParams ==
    \/ Cursor(CursorVals)
    \/ Limit(LimitVals)
    \/ Order(OrderVals)
    \/ AddQueryParam(ParamKeys, ParamVals)
    \/ AddQueryParams

SpecParams == Init /\ [][NextParams]_vars

\* The executor and the paginator alone, over all the transport's answers.
NextPaging ==
    \/ Call(Answers)
    \/ NextPage(Answers)
    \/ PrevPage(Answers)

SpecPaging == Init /\ [][NextPaging]_vars

\* Setters, executor and paginator together, over a few inputs of each.
Next ==
    \/ Cursor(FewCursorVals)
    \/ Limit(FewLimitVals)
    \/ Order(OrderVals)
    \/ Call(FewAnswers)
    \/ NextPage(FewAnswers)
    \/ PrevPage(FewAnswers)

Spec == Init /\ [][Next]_vars

\* Comparison of builders in the states that a setter and call() reach.
FewFieldSets == {f \in SUBSET EqFields : Cardinality(f) <= 2 \/ f = EqFields}

NextEq ==
    \/ Cursor(FewCursorVals)
    \/ Call(FewAnswers)
    \/ Equals(FewFieldSets)

SpecEq == Init /\ [][NextEq]_vars

\* The query for the latest ledger: a ledgers builder, order, limit, call.
InitLedgers == InitOf({"LedgersCallBuilder"})

NextLedgers ==
    \/ Order(OrderVals)
    \/ Limit(LimitVals)
    \/ Call(LedgerAnswers)

SpecLedgers == InitLedgers /\ [][NextLedgers]_vars

\* Every setter, the executor and the paginator, with answers that fail.
NextLinks ==
    \/ Cursor(FewCursorVals)
    \/ Limit(FewLimitVals)
    \/ Order({PyBool(FALSE)})
    \/ AddQueryParam({"include_failed"}, {PyBool(TRUE)})
    \/ Call(LinkAnswers)
    \/ NextPage(LinkAnswers)
    \/ PrevPage(LinkAnswers)

SpecLinks == Init /\ [][NextLinks]_vars

\* Streams, with params and links that change between and during them.
NextStream ==
    \/ Cursor(FewCursorVals)
    \/ Call(FewAnswers)
    \/ Stream({OkStream})
    \/ Pull({OkStream})

SpecStream == Init /\ [][NextStream]_vars

\* Streams whose channel may fail to get established and whose reads may
\* fail.
NextStreamFail ==
    \/ Cursor(FewCursorVals)
    \/ Stream(StreamAnswers)
    \/ Pull(StreamAnswers)

SpecStreamFail == Init /\ [][NextStreamFail]_vars

\* Two tasks that use one asynchronous builder, and the closing of the
\* client.
TaskAnswers ==
    {Return(Response(404, ProblemBody)),
     Return(Response(200, SamplePage)),
     Return(Response(200, BodyOf(LinksOf(None, PyDict("href" :> Url(1))))))}

InitTasks == InitOf({"AccountsCallBuilder"})

NextTasks ==
    \/ \E t \in TaskIds : Begin(t, {"call", "next", "prev"})
    \/ \E t \in TaskIds : BeginPull(t)
    \/ \E t \in TaskIds : Resume(t, TaskAnswers, {OkStream})
    \/ \E t \in TaskIds : Abort(t)
    \/ Stream({OkStream})
    \/ Close

SpecTasks == InitTasks /\ [][NextTasks]_vars

\* The event loop resumes a task whose awaited request has been answered,
\* and a closed client answers every request in flight.
LiveTasks == SpecTasks /\ \A t \in TaskIds : WF_vars(Abort(t))

\* Every operation of a builder: each setter with one input, the executor
\* and the paginator, streams and their elements.
FrameAnswers ==
    {Return(Response(404, ProblemBody)), Return(Response(200, SamplePage))}

NextFrame ==
    \/ Cursor({PyInt(1)})
    \/ Limit(FewLimitVals)
    \/ Order({PyBool(FALSE)})
    \/ AddQueryParam({"cursor"}, {PyInt(1)})
    \/ Call(FrameAnswers)
    \/ NextPage(FrameAnswers)
    \/ PrevPage(FrameAnswers)
    \/ Stream({OkStream})
    \/ Pull({OkStream})

SpecFrame == Init /\ [][NextFrame]_vars

\* Two builders of each class, each with a setter, the executor and the
\* paginator, and their comparison.
TwinOps ==
    {[op |-> "cursor", arg |-> PyInt(1)], [op |-> "call", arg |-> None],
     [op |-> "next", arg |-> None], [op |-> "prev", arg |-> None]}

NextTwin ==
    \/ Factory(Kinds)
    \/ Cursor({PyInt(1)})
    \/ Call(FrameAnswers)
    \/ NextPage(FrameAnswers)
    \/ PrevPage(FrameAnswers)
    \/ OnOther(TwinOps, FrameAnswers)
    \/ Compare

SpecTwin == Init /\ [][NextTwin]_vars

\* Submissions of transactions.
NextSubmit ==
    \/ Submit(Envelopes, BOOLEAN)
    \/ LookupAnswer(LookupAnswers)
    \/ PostAnswer(PostAnswers)

SpecSubmit == InitTasks /\ [][NextSubmit]_vars

TypeOK ==
    /\ DOMAIN builder = Variants
    /\ last.op \in {"__init__", "cursor", "limit", "order", "_add_query_param",
                    "_add_query_params", "call", "next", "prev", "__eq__",
                    "stream", "pull", "begin", "resume", "close",
                    "factory", "on_other", "compare",
                    "submit_transaction", "lookup", "post"}

(***************************************************************************)
(* Properties.                                                             *)
(***************************************************************************)
\* The last operation was `op` and the transport had a response for it.
Answered(op) == last.op = op /\ last.answer.t = "return"
LastStatus == last.answer.v.status_code
LastBody == last.answer.v.body

\* C1: for every status code the transport returns to the asynchronous
\* call(): 404 raises NotFoundError, another status in [400,500) raises
\* BadRequestError, a status in [500,600) raises BadResponseError, another
\* non-2xx status raises UnknownRequestError, and a 2xx status (whose body
\* decodes as JSON) returns the decoded body; call() has exactly one of
\* these outcomes.
C1_StatusMapping ==
    Answered("call") =>
        LET s == LastStatus
            r == ret["async"]
        IN  /\ s = 404 => r = Raise("NotFoundError")
            /\ (400 <= s /\ s < 500 /\ s # 404) => r = Raise("BadRequestError")
            /\ (500 <= s /\ s < 600) => r = Raise("BadResponseError")
            /\ (~(200 <= s /\ s < 300) /\ ~(400 <= s /\ s < 600))
                   => r = Raise("UnknownRequestError")
            /\ (200 <= s /\ s < 300 /\ LastBody.t = "dict") => r = Return(LastBody)
            /\ LastBody.t = "dict" =>
                   Cardinality({x \in {Raise("NotFoundError"), Raise("BadRequestError"),
                                       Raise("BadResponseError"),
                                       Raise("UnknownRequestError"),
                                       Return(LastBody)} : x = r}) = 1

C1_Witness ==
    /\ Answered("call")
    /\ LastStatus = 499
    /\ ret["async"] = Raise("BadRequestError")
    /\ sent["async"] # <<>>

\* C2 as claimed: the synchronous call() raises NotFoundError on 404,
\* BadRequestError on 400, BadResponseError on 503 and UnknownRequestError
\* on 599.
C2_AsClaimed ==
    Answered("call") =>
        /\ LastStatus = 404 => ret["sync"] = Raise("NotFoundError")
        /\ LastStatus = 400 => ret["sync"] = Raise("BadRequestError")
        /\ LastStatus = 503 => ret["sync"] = Raise("BadResponseError")
        /\ LastStatus = 599 => ret["sync"] = Raise("UnknownRequestError")

\* C2 as amended: the synchronous call() raises NotFoundError on 404,
\* BadRequestError on 400, BadResponseError on 503 and, 599 lying in
\* [500,600), BadResponseError on 599 too; a status outside the 2xx, 4xx and
\* 5xx ranges, such as 600, raises UnknownRequestError.
C2_Amended ==
    Answered("call") =>
        /\ LastStatus = 404 => ret["sync"] = Raise("NotFoundError")
        /\ LastStatus = 400 => ret["sync"] = Raise("BadRequestError")
        /\ LastStatus = 503 => ret["sync"] = Raise("BadResponseError")
        /\ LastStatus = 599 => ret["sync"] = Raise("BadResponseError")
        /\ LastStatus = 600 => ret["sync"] = Raise("UnknownRequestError")

C2_Witness ==
    /\ Answered("call")
    /\ LastStatus = 599
    /\ ret["sync"] = Raise("BadResponseError")
    /\ sent["sync"] # <<>>

Setters == {"cursor", "limit", "order", "_add_query_param", "_add_query_params"}

\* C3: whenever next_link is absent, next() raises NotPageableError and
\* issues no transport request, and likewise prev() when prev_link is
\* absent, for each of the builder classes; both links are absent on a
\* freshly constructed builder and no chaining setter gives them a value.
C3_NotPageable ==
    /\ Built => \A v \in Variants :
                   builder[v].next_href = None /\ builder[v].prev_href = None
    /\ [][\A v \in Variants :
            /\ (last'.op = "next" /\ builder[v].next_href = None)
                   => (ret'[v] = Raise("NotPageableError") /\ sent'[v] = <<>>)
            /\ (last'.op = "prev" /\ builder[v].prev_href = None)
                   => (ret'[v] = Raise("NotPageableError") /\ sent'[v] = <<>>)
            /\ last'.op \in Setters
                   => /\ builder'[v].next_href = builder[v].next_href
                      /\ builder'[v].prev_href = builder[v].prev_href]_vars

C3_Witness ==
    /\ last.op = "next"
    /\ builder["async"].params # {}
    /\ builder["async"].next_href = None
    /\ builder["async"].prev_href # None
    /\ ret["async"] = Raise("NotPageableError")
    /\ sent["async"] = <<>>

\* The envelope of a decoded body: whether it has _links.<side>, whether
\* that link object is one absorption reads (a non-empty object), and the
\* href at _links.<side>.href (None when there is none).
HasLink(body, side) ==
    /\ "_links" \in DOMAIN body.v
    /\ side \in DOMAIN body.v["_links"].v
Carries(body, side) ==
    /\ HasLink(body, side)
    /\ DOMAIN body.v["_links"].v[side].v # {}
LinkHref(body, side) ==
    IF HasLink(body, side) /\ "href" \in DOMAIN body.v["_links"].v[side].v
    THEN body.v["_links"].v[side].v["href"]
    ELSE None

Succeeded(op, v) == Answered(op) /\ ret[v].t = "return"

\* C4: after a successful call() whose response has _links.next.href = U,
\* next_link is U, and if that response has no _links.prev, prev_link holds
\* the value it held before the call; likewise with prev and next swapped.
C4_AbsorbKeepsOther ==
    [][\A v \in {"async", "legacy"} : \A U \in Hrefs :
          (Succeeded("call", v))' =>
              /\ LinkHref(LastBody', "next") = U =>
                    /\ builder'[v].next_href = U
                    /\ ~HasLink(LastBody', "prev")
                          => builder'[v].prev_href = builder[v].prev_href
              /\ LinkHref(LastBody', "prev") = U =>
                    /\ builder'[v].prev_href = U
                    /\ ~HasLink(LastBody', "next")
                          => builder'[v].next_href = builder[v].next_href]_vars

C4_Witness ==
    /\ Succeeded("call", "async")
    /\ LinkHref(LastBody, "next") = Url(2)
    /\ ~HasLink(LastBody, "prev")
    /\ builder["async"].next_href = Url(2)
    /\ builder["async"].prev_href = Url(1)
    /\ builder["legacy"].prev_href = Url(1)

\* C5 as claimed: after any successful call(), each link is absent or the
\* URL of the most recent response's envelope: a link that response does
\* not carry holds no value of an earlier response.
C5_AsClaimed ==
    Succeeded("call", "async") =>
        /\ builder["async"].prev_href = LinkHref(LastBody, "prev")
        /\ builder["async"].next_href = LinkHref(LastBody, "next")

\* C5 as amended: on every successful call(), a link whose (non-empty) link
\* object the response carries is overwritten with that object's href,
\* absent if it has none; a link the response does not carry keeps the
\* value it held before the call, which may come from an earlier response.
C5_Amended ==
    [][(Succeeded("call", "async"))' =>
          /\ builder'["async"].prev_href =
                IF Carries(LastBody', "prev") THEN LinkHref(LastBody', "prev")
                ELSE builder["async"].prev_href
          /\ builder'["async"].next_href =
                IF Carries(LastBody', "next") THEN LinkHref(LastBody', "next")
                ELSE builder["async"].next_href]_vars

C5_Witness ==
    /\ Succeeded("call", "async")
    /\ Carries(LastBody, "prev")
    /\ ~HasLink(LastBody, "next")
    /\ builder["async"].prev_href = LinkHref(LastBody, "prev")
    /\ builder["async"].next_href # None

\* What the last operation gave the caller of builder v, with a returned
\* builder named by whether it is the builder the operation was called on.
Outcome(v) ==
    IF ret[v].t = "return" /\ ret[v].v.t = "ref"
    THEN Return(Ref(IF ret[v].v.v = v THEN "self" ELSE "other"))
    ELSE ret[v]

\* C6: the synchronous and the asynchronous builder behave identically: run
\* through the same cursor/limit/order, call, next and prev operations
\* against the same transport answers, both accept every operation, give
\* the same result or the same error for each, and hold the same params,
\* prev_link and next_link.
C6_SyncAsyncIdentical ==
    (Built /\ last.op # "__init__") =>
        /\ ret["sync"] # Raise("AttributeError")
        /\ Outcome("sync") = Outcome("async")
        /\ builder["sync"].params = builder["async"].params
        /\ builder["sync"].prev_href = builder["async"].prev_href
        /\ builder["sync"].next_href = builder["async"].next_href

\* The values params holds for a key, and params without that key.
Lookup(d, k) == {p[2] : p \in {q \in d : q[1] = k}}
Without(d, k) == {p \in d : p[1] # k}

\* C7: set_param(key, value) leaves params unchanged for None, stores "true"
\* for True, "false" for False and the string form of any other value (1
\* gives "1", "native" gives "native"); the stored value replaces the one
\* the key had and no other key changes; so after set_param or set_params
\* params holds only strings, none of them a serialized null.
C7_SetParam ==
    [][/\ last'.op = "_add_query_param" =>
            LET k == last'.arg[1]
                x == last'.arg[2]
                P == builder["async"].params
                Q == builder'["async"].params
            IN  /\ x.t = "NoneType" => Q = P
                /\ (x.t = "bool" /\ x.v) => Lookup(Q, k) = {PyStr("true")}
                /\ (x.t = "bool" /\ ~x.v) => Lookup(Q, k) = {PyStr("false")}
                /\ x = PyInt(1) => Lookup(Q, k) = {PyStr("1")}
                /\ x = PyStr("native") => Lookup(Q, k) = {PyStr("native")}
                /\ Without(Q, k) = Without(P, k)
       /\ last'.op \in {"_add_query_param", "_add_query_params"} =>
            \A p \in builder'["async"].params :
                /\ p[2].t = "str"
                /\ p[2].v \notin {"None", "null", ""}
                /\ Cardinality(Lookup(builder'["async"].params, p[1])) = 1]_vars

C7_Witness ==
    /\ last.op = "_add_query_param"
    /\ last.arg = <<"include_failed", PyBool(TRUE)>>
    /\ last.repeat = "differs"
    /\ Lookup(builder["async"].params, "include_failed") = {PyStr("true")}
    /\ Lookup(builder["async"].params, "cursor") = {PyStr("native")}

\* C8: order(True) sets parameter "order" to "desc", order(False) sets it to
\* "asc", order() does what order(True) does, and no other parameter
\* changes.
C8_Order ==
    [][\A v \in {"async", "legacy"} :
          last'.op = "order" =>
              /\ last'.arg = PyBool(TRUE)
                     => Lookup(builder'[v].params, "order") = {PyStr("desc")}
              /\ last'.arg = PyBool(FALSE)
                     => Lookup(builder'[v].params, "order") = {PyStr("asc")}
              /\ last'.arg = Omitted
                     => Lookup(builder'[v].params, "order") = {PyStr("desc")}
              /\ Without(builder'[v].params, "order")
                     = Without(builder[v].params, "order")]_vars

C8_Witness ==
    /\ last.op = "order"
    /\ last.arg = Omitted
    /\ Lookup(builder["async"].params, "order") = {PyStr("desc")}
    /\ Lookup(builder["legacy"].params, "order") = {PyStr("desc")}
    /\ Lookup(builder["async"].params, "limit") = {PyStr("10")}

\* The string a chaining setter stores for its argument.
Stored(op, x) ==
    CASE op = "order" -> IF x = PyBool(FALSE) THEN "asc" ELSE "desc"
      [] x.t = "int" -> IntToStr(x.v)
      [] x.t = "str" -> x.v

\* C9: cursor(v), limit(v) and order(v) return the builder they were called
\* on; the same call twice in a row leaves params as the first left it; and
\* whatever the key held, afterwards it holds the last value, once.
C9_Chaining ==
    [][last'.op \in {"cursor", "limit", "order"} =>
          LET P == builder["async"].params
              Q == builder'["async"].params
          IN  /\ ret'["async"] = Return(Ref("async"))
              /\ last'.repeat = "same" => Q = P
              /\ last'.arg.t # "NoneType"
                     => Lookup(Q, last'.op) = {PyStr(Stored(last'.op, last'.arg))}
              /\ \A k \in DictKeys(Q) : Cardinality(Lookup(Q, k)) = 1]_vars

C9_Witness ==
    /\ last.op = "cursor"
    /\ last.arg = PyInt(2)
    /\ last.repeat = "same"
    /\ ret["async"] = Return(Ref("async"))
    /\ builder["async"].params = {<<"cursor", PyStr("2")>>}

\* The builder has just been constructed: no operation has run on it.
Fresh == Built /\ last.op = "__init__"

\* C10 as claimed: every concrete builder has, right after construction, a
\* non-empty endpoint and empty params.
C10_AsClaimed ==
    Fresh => /\ builder["async"].endpoint # ""
             /\ builder["async"].params = {}

\* C10 as amended: every concrete builder has empty params right after
\* construction, and a non-empty endpoint unless it is the RootCallBuilder,
\* whose endpoint is the empty string.
C10_Amended ==
    Fresh => /\ builder["async"].params = {}
             /\ builder["async"].cls = "RootCallBuilder"
                    => builder["async"].endpoint = ""
             /\ builder["async"].cls # "RootCallBuilder"
                    => builder["async"].endpoint # ""

C10_Witness ==
    /\ Fresh
    /\ builder["async"].cls = "AccountsCallBuilder"
    /\ builder["async"].endpoint = "accounts"
    /\ builder["async"].params = {}

\* C11: a RootCallBuilder constructed with a base URL and a valid client
\* has, right after construction, the empty string as endpoint and the
\* empty mapping as params; so has a builder that the synchronous
\* CallBuilder.__init__ has set up.
C11_RootInit ==
    (Fresh /\ builder["async"].cls = "RootCallBuilder") =>
        /\ builder["async"].endpoint = ""
        /\ builder["async"].params = {}
        /\ builder["async"].horizon_url = HorizonUrl
        /\ builder["sync"].endpoint = ""
        /\ builder["sync"].params = {}

C11_Witness ==
    /\ Fresh
    /\ builder["async"].cls = "RootCallBuilder"
    /\ builder["async"].client = AiohttpClient
    /\ builder["async"].endpoint = ""
    /\ builder["async"].params = {}

\* The fields that builder equality covers.
Compared == {"client", "params", "endpoint", "horizon_url"}

\* C12: two builders of the same type compare equal if and only if they
\* have the same client, the same params contents, the same endpoint and
\* the same base_url: equal when all four agree, unequal when any one of
\* them differs.
C12_Equality ==
    (last.op = "__eq__" /\ "cls" \notin last.arg) =>
        \A v \in {"async", "sync"} :
            ret[v] = Return(PyBool(last.arg \cap Compared = {}))

C12_Witness ==
    /\ last.op = "__eq__"
    /\ last.arg = {"endpoint"}
    /\ builder["async"].params # {}
    /\ builder["async"].next_href # None
    /\ ret["async"] = Return(PyBool(FALSE))

\* The link of builder b that next() (side "next") or prev() (side "prev")
\* follows.
StoredLink(b, side) == IF side = "next" THEN b.next_href ELSE b.prev_href

\* C13: when next_link is present, next() issues a GET against exactly the
\* stored next_link with no query parameters, whatever the builder's params
\* hold, then maps the status code to the error call() maps it to and, on
\* success, returns the decoded body and absorbs its pagination envelope as
\* call() does; prev() does the same with prev_link.  The link a successful
\* next() absorbs is thus the one a following next() requests.
C13_FollowLink ==
    [][\A side \in {"next", "prev"} :
          (last'.op = side /\ StoredLink(builder["async"], side) # None) =>
              /\ sent'["async"] = <<Request(StoredLink(builder["async"], side), None)>>
              /\ last'.answer.t = "return" =>
                    LET s == LastStatus'
                        r == ret'["async"]
                    IN  /\ s = 404 => r = Raise("NotFoundError")
                        /\ (400 <= s /\ s < 500 /\ s # 404) => r = Raise("BadRequestError")
                        /\ (500 <= s /\ s < 600) => r = Raise("BadResponseError")
                        /\ (~(200 <= s /\ s < 300) /\ ~(400 <= s /\ s < 600))
                               => r = Raise("UnknownRequestError")
                        /\ (200 <= s /\ s < 300 /\ LastBody'.t = "dict") =>
                               /\ r = Return(LastBody')
                               /\ builder'["async"].prev_href =
                                     IF Carries(LastBody', "prev")
                                     THEN LinkHref(LastBody', "prev")
                                     ELSE builder["async"].prev_href
                               /\ builder'["async"].next_href =
                                     IF Carries(LastBody', "next")
                                     THEN LinkHref(LastBody', "next")
                                     ELSE builder["async"].next_href
                               /\ builder'["async"].params = builder["async"].params]_vars

C13_Witness ==
    /\ Succeeded("next", "async")
    /\ last.repeat = "same"
    /\ builder["async"].params # {}
    /\ sent["async"] = <<Request(Url(1), None)>>
    /\ builder["async"].next_href = Url(1)
    /\ LinkHref(LastBody, "next") = Url(1)

\* params as order(True) and then limit(1) leave them on a fresh builder.
DescOne == {<<"order", PyStr("desc")>>, <<"limit", PyStr("1")>>}

\* C14: on a builder with base URL "https://horizon-testnet.stellar.org/"
\* and endpoint "ledgers", order(True) makes params {"order": "desc"},
\* limit(1) then makes them {"order": "desc", "limit": "1"}, and call(),
\* the transport returning the ledger page with an empty _links, then
\* requests base URL + "ledgers" with those params, returns exactly that
\* page and leaves params {"order": "desc", "limit": "1"}.
C14_Scenario ==
    [][LET b == builder["async"]
           b2 == builder'["async"]
       IN  /\ (Fresh /\ b.horizon_url = "https://horizon-testnet.stellar.org/"
                 /\ b.endpoint = "ledgers"
                 /\ last'.op = "order" /\ last'.arg = PyBool(TRUE))
                  => b2.params = {<<"order", PyStr("desc")>>}
           /\ (last.op = "order" /\ b.params = {<<"order", PyStr("desc")>>}
                 /\ last'.op = "limit" /\ last'.arg = PyInt(1))
                  => b2.params = DescOne
           /\ (last.op = "limit" /\ b.params = DescOne /\ b.endpoint = "ledgers"
                 /\ last'.op = "call"
                 /\ last'.answer = Return(Response(200, LedgerBody)))
                  => /\ ret'["async"] = Return(LedgerBody)
                     /\ b2.params = DescOne
                     /\ sent'["async"] =
                           <<Request("https://horizon-testnet.stellar.org/ledgers",
                                     PyDict(DescOne))>>]_vars

C14_Witness ==
    /\ builder["async"].cls = "LedgersCallBuilder"
    /\ builder["async"].endpoint = "ledgers"
    /\ Succeeded("call", "async")
    /\ LastBody = LedgerBody
    /\ ret["async"] = Return(LedgerBody)
    /\ builder["async"].params = DescOne
    /\ builder["async"].next_href = None

\* The client the constructor of builder v was called with, and the class
\* that constructor requires of it.
GivenClient(v) ==
    IF server.ret.t = "raise" THEN last.arg.client
    ELSE IF v = "async" THEN server.b._client ELSE ClientFor(v)
RequiredClass(v) == IF v = "sync" THEN "BaseSyncClient" ELSE "BaseAsyncClient"

Fails(a) ==
    \/ a.t = "raise"
    \/ ~(200 <= a.v.status_code /\ a.v.status_code < 300)
    \/ a.v.body.t = "malformed"

Links(b) == <<b.prev_href, b.next_href>>

\* C16: for each builder class, no setter (cursor, limit, order,
\* _add_query_param) changes prev_link or next_link; a call(), next() or
\* prev() whose request fails (the transport raises, the status is an error
\* status, or the body does not decode as JSON) raises to the caller (on
\* the asynchronous builder: the transport's exception, the exception of
\* the status, or the decoder's exception) and leaves prev_link, next_link
\* and params as they were; and whenever a link changes, the step is a
\* call(), next() or prev() that returned the decoded body of a response
\* with a 2xx status.
C16_LinksOnlyOnSuccess ==
    [][\A v \in Variants :
          /\ last'.op \in Setters => Links(builder'[v]) = Links(builder[v])
          /\ (last'.op \in {"call", "next", "prev"} /\ Fails(last'.answer)) =>
                /\ Links(builder'[v]) = Links(builder[v])
                /\ builder'[v].params = builder[v].params
                /\ ret'[v].t = "raise"
          /\ (last'.op \in {"call", "next", "prev"} /\ Fails(last'.answer)
                /\ sent'["async"] # <<>>) =>
                ret'["async"] =
                    IF last'.answer.t = "raise" THEN last'.answer
                    ELSE IF raise_request_exception(last'.answer.v) # ""
                        THEN Raise(raise_request_exception(last'.answer.v))
                    ELSE Raise("JSONDecodeError")
          /\ Links(builder'[v]) # Links(builder[v]) =>
                /\ last'.op \in {"call", "next", "prev"}
                /\ ~Fails(last'.answer)
                /\ ret'[v] = Return(last'.answer.v.body)]_vars

C16_Witness ==
    /\ last.op = "next"
    /\ last.answer = Return(Response(503, SamplePage))
    /\ ret["async"] = Raise("BadResponseError")
    /\ ret["legacy"] = Raise("BadResponseError")
    /\ ret["sync"].t = "raise"
    /\ Links(builder["async"]) = <<Url(1), Url(2)>>
    /\ <<"include_failed", PyStr("true")>> \in builder["async"].params
    /\ sent["async"] = <<Request(Url(2), None)>>

\* C17: each call() issues exactly one GET, to base URL + endpoint with the
\* params the builder holds at that time, and each next() or prev() whose
\* link is present issues exactly one GET, to that link; this is so whether
\* the request succeeds or fails: nothing is sent a second time.
C17_OneRequest ==
    [][\A v \in Variants :
          /\ last'.op = "call" =>
                sent'[v] = <<[method |-> "GET",
                              url |-> builder[v].horizon_url \o builder[v].endpoint,
                              params |-> PyDict(builder[v].params)]>>
          /\ \A side \in {"next", "prev"} :
                (last'.op = side /\ StoredLink(builder[v], side) # None) =>
                    /\ Len(sent'[v]) = 1
                    /\ sent'[v][1].method = "GET"
                    /\ sent'[v][1].url = StoredLink(builder[v], side)]_vars

C17_Witness ==
    /\ last.op = "call"
    /\ last.answer = Raise("ConnectionError")
    /\ builder["async"].endpoint = "accounts"
    /\ builder["async"].params # {}
    /\ \A v \in {"async", "sync"} :
          /\ ret[v] = Raise("ConnectionError")
          /\ Len(sent[v]) = 1
          /\ sent[v][1].url = "https://horizon-testnet.stellar.org/" \o builder[v].endpoint

\* C18: for each builder class, calling stream() and asking the generator
\* for elements leave prev_link and next_link (and the rest of the builder)
\* as they were, and a channel that is opened is the one for base URL +
\* endpoint and the builder's params, whatever the links hold.
C18_StreamLeavesLinks ==
    [][\A v \in Variants :
          last'.op \in {"stream", "pull"} =>
              /\ Links(builder'[v]) = Links(builder[v])
              /\ builder'[v] = builder[v]
              /\ (stream'[v].chan # stream[v].chan /\ stream'[v].chan # None) =>
                    stream'[v].chan =
                        [url |-> builder[v].horizon_url \o builder[v].endpoint,
                         params |-> PyDict(builder[v].params)]]_vars

C18_Witness ==
    /\ last.op = "pull"
    /\ last.repeat = "same"
    /\ Links(builder["async"]) = <<Url(2), None>>
    /\ Links(builder["legacy"]) = <<Url(2), None>>
    /\ stream["async"].reads = 2
    /\ stream["sync"].reads = 2
    /\ stream["async"].chan.url = "https://horizon-testnet.stellar.org/accounts"

\* C19: for each builder class, the k-th element the consumer has obtained
\* from a stream is the k-th event delivered on it, as many reads of the
\* transport have been made as elements were asked for, and the number of
\* reads changes only when the consumer asks for an element, then by one
\* (a new stream() starts at none).
C19_PullInOrder ==
    /\ [](\A v \in Variants :
            /\ Len(stream[v].got) = stream[v].reads
            /\ \A k \in 1..Len(stream[v].got) : stream[v].got[k] = Event(k))
    /\ [][\A v \in Variants :
            /\ last'.op = "pull" =>
                  /\ stream'[v].reads = stream[v].reads + 1
                  /\ stream'[v].got = Append(stream[v].got, ret'[v].v)
                  /\ ret'[v] = Return(Event(Len(stream[v].got) + 1))
            /\ last'.op = "stream" => stream'[v].reads = 0 /\ stream'[v].got = <<>>
            /\ last'.op \notin {"pull", "stream"} =>
                  stream'[v].reads = stream[v].reads /\ stream'[v].got = stream[v].got]_vars

C19_Witness ==
    /\ last.op = "pull"
    /\ \A v \in {"async", "legacy"} :
          /\ stream[v].reads = 3
          /\ stream[v].got = <<Event(1), Event(2), Event(3)>>
          /\ ret[v] = Return(Event(3))

\* C20: the channel of a stream is the one for the params the builder held
\* when the stream() call that made the stream was made, on the
\* asynchronous builder as on the synchronous one: a change of params after
\* that call, before the first element is asked for or later, does not show
\* in the channel.
C20_ParamsAtStreamCall ==
    \A v \in {"async", "sync"} :
        stream[v].chan # None => stream[v].chan.params = stream[v].called_with

IsPrefix(s, t) == Len(s) <= Len(t) /\ \A i \in 1..Len(s) : s[i] = t[i]

\* The transport's answer a makes the element asked of generator g fail:
\* the channel, still to be opened, is not established, or the read fails.
PullFails(g, a) ==
    \/ g.st = "created" /\ (a.open = "fail" \/ a.read = "fail")
    \/ g.st = "running" /\ a.read = "fail"

\* C21: for each builder class, a channel that cannot be established
\* raises StreamClientError: from stream() itself on the synchronous
\* builder, which then hands out no generator, and from the first element
\* asked on the asynchronous builders; a read that fails in the middle of a
\* stream raises StreamClientError from the request for that element; and
\* in every case the elements obtained before are kept as they were, an
\* element being added only by a request that returns it.
C21_StreamFailure ==
    [][\A v \in Variants :
          /\ (last'.op = "stream" /\ v = "sync" /\ last'.answer.open = "fail") =>
                /\ ret'[v] = Raise("StreamClientError")
                /\ stream'[v].st = "none"
          /\ (last'.op = "stream" /\ v # "sync") => ret'[v] = Return(Ref("generator"))
          /\ (last'.op = "pull" /\ PullFails(stream[v], last'.answer)) =>
                /\ ret'[v] = Raise("StreamClientError")
                /\ stream'[v].got = stream[v].got
          /\ last'.op = "pull" =>
                stream'[v].got = IF ret'[v].t = "return"
                                 THEN Append(stream[v].got, ret'[v].v)
                                 ELSE stream[v].got
          /\ last'.op # "stream" => IsPrefix(stream[v].got, stream'[v].got)]_vars

C21_Witness ==
    /\ last.op = "pull"
    /\ last.answer.read = "fail"
    /\ \A v \in {"async", "sync"} :
          /\ ret[v] = Raise("StreamClientError")
          /\ stream[v].got = <<Event(1), Event(2)>>
          /\ stream[v].st = "done"

C26_SuspendedNext ==
    [][\A t \in TaskIds :
          /\ \A side \in {"next", "prev"} :
                (last'.op = "begin" /\ last'.arg = <<t, side>>
                    /\ StoredLink(builder["async"], side) # None) =>
                    /\ tasks'[t].st = "waiting"
                    /\ tasks'[t].req = Request(StoredLink(builder["async"], side), None)
          /\ (tasks[t].st = "waiting" /\ tasks'[t].st = "waiting") =>
                tasks'[t].req = tasks[t].req
          /\ (last'.op = "resume" /\ last'.arg[1] = t /\ last'.arg[2] # "pull"
                /\ ~Fails(last'.answer)) =>
                /\ tasks'[t].ret = Return(LastBody')
                /\ builder'["async"].prev_href =
                      IF Carries(LastBody', "prev") THEN LinkHref(LastBody', "prev")
                      ELSE builder["async"].prev_href
                /\ builder'["async"].next_href =
                      IF Carries(LastBody', "next") THEN LinkHref(LastBody', "next")
                      ELSE builder["async"].next_href
          /\ Links(builder'["async"]) # Links(builder["async"]) =>
                last'.op = "resume" /\ ~Fails(last'.answer)]_vars

C26_Witness ==
    /\ last.op = "resume"
    /\ last.arg = <<"t1", "next">>
    /\ last.answer = Return(Response(404, ProblemBody))
    /\ tasks["t1"].req = Request(Url(1), None)
    /\ tasks["t1"].ret = Raise("NotFoundError")
    /\ tasks["t2"].st = "done" /\ tasks["t2"].op = "call"
    /\ tasks["t2"].ret = Return(SamplePage)
    /\ Links(builder["async"]) = <<Url(1), Url(2)>>

\* The endpoint the constructor of each class stores.
EndpointOf(cls) ==
    CASE cls = "AccountsCallBuilder" -> "accounts"
      [] cls = "LedgersCallBuilder" -> "ledgers"
      [] OTHER -> ""

\* C23: for each builder class, no setter, call(), next(), prev(), stream()
\* or request for a stream element changes the builder's base URL or its
\* endpoint: in every state both are what the construction stored.
C23_UrlAndEndpointFixed ==
    /\ [](Built => \A v \in Variants :
            /\ builder[v].horizon_url = HorizonUrl
            /\ builder[v].endpoint = EndpointOf(builder[v].cls))
    /\ [][Built => \A v \in Variants :
            /\ builder'[v].horizon_url = builder[v].horizon_url
            /\ builder'[v].endpoint = builder[v].endpoint]_vars

C23_Witness ==
    /\ last.op = "pull"
    /\ stream["async"].reads = 2
    /\ Links(builder["async"]) = <<Url(1), Url(2)>>
    /\ Lookup(builder["async"].params, "cursor") = {PyStr("1")}
    /\ Lookup(builder["async"].params, "limit") = {PyStr("10")}
    /\ Lookup(builder["async"].params, "order") = {PyStr("asc")}
    /\ builder["async"].endpoint = "accounts"
    /\ builder["async"].horizon_url = HorizonUrl

\* The operations that send requests or open streams.
Runners == {"call", "next", "prev", "stream", "pull"}

\* C28: for each builder class, call(), next(), prev(), stream() and a
\* request for a stream element leave params as they were, so params
\* change only in a setter's step; every call() sends the base URL +
\* endpoint with the params the builder holds, whatever next(), prev() or
\* streams came before; and a call() that directly follows a call() sends
\* the same URL and params as that one.
C28_ParamsOnlyBySetters ==
    [][\A v \in Variants :
          /\ last'.op \in Runners => builder'[v].params = builder[v].params
          /\ builder'[v].params # builder[v].params => last'.op \in Setters
          /\ last'.op = "call" =>
                sent'[v] = <<Request(urljoin_with_query(builder'[v].horizon_url,
                                                        builder'[v].endpoint),
                                     PyDict(builder[v].params))>>
          /\ (last.op = "call" /\ last'.op = "call") => sent'[v] = sent[v]]_vars

C28_Witness ==
    /\ last.op = "call"
    /\ last.repeat = "differs"
    /\ last.answer = Return(Response(404, ProblemBody))
    /\ Links(builder["async"]) = <<Url(1), Url(2)>>
    /\ \A v \in {"async", "legacy"} :
          /\ Lookup(builder[v].params, "cursor") = {PyStr("1")}
          /\ Lookup(builder[v].params, "limit") = {PyStr("10")}
          /\ sent[v] = <<Request(HorizonUrl \o builder[v].endpoint,
                                 PyDict(builder[v].params))>>

\* The last operation was a call(), next() or prev() that succeeded.
Paged(v) == \E op \in {"call", "next", "prev"} : Succeeded(op, v)

\* The envelope of the body is missing or empty.
NoEnvelope(body) ==
    "_links" \in DOMAIN body.v => DOMAIN body.v["_links"].v = {}

\* C25: on the builders that absorb links, a successful response without
\* _links or with an empty _links leaves both links as they were; a link
\* object that is present and not empty but has no href makes that link
\* absent, whatever an earlier response stored there; and next() (prev())
\* right after such a response raises NotPageableError, sends nothing and
\* leaves the builder as it is.
C25_PartialEnvelope ==
    [][\A v \in {"async", "legacy"} :
          /\ (Paged(v)' /\ NoEnvelope(LastBody')) =>
                Links(builder'[v]) = Links(builder[v])
          /\ \A side \in {"next", "prev"} :
                /\ (Paged(v)' /\ Carries(LastBody', side)
                        /\ LinkHref(LastBody', side) = None) =>
                      StoredLink(builder'[v], side) = None
                /\ (Paged(v) /\ Carries(LastBody, side)
                        /\ LinkHref(LastBody, side) = None /\ last'.op = side) =>
                      /\ ret'[v] = Raise("NotPageableError")
                      /\ sent'[v] = <<>>
                      /\ builder'[v] = builder[v]]_vars

C25_Witness ==
    /\ last.op = "next"
    /\ last.repeat = "differs"
    /\ last.answer = Return(Response(200,
           BodyOf(LinksOf(None, PyDict("templated" :> PyBool(TRUE))))))
    /\ \A v \in {"async", "legacy"} :
          /\ ret[v] = Return(LastBody)
          /\ Links(builder[v]) = <<Url(1), None>>

\* The operations that send a request for a page.
Pagers == {"call", "next", "prev"}

C27_EqualityIgnoresLinks ==
    [][\A v \in Variants :
          /\ (/\ Twinned
               /\ EqOf(v, builder[v], twin[v]) = PyBool(TRUE)
               /\ \/ last'.op \in Pagers
                  \/ last'.op = "on_other" /\ last'.arg[1] \in Pagers) =>
                EqOf(v, builder'[v], twin'[v]) = PyBool(TRUE)
          /\ last'.op = "compare" =>
                ret'[v] = IF twin[v].cls = builder[v].cls
                          THEN Return(PyBool(\A f \in Compared : builder[v][f] = twin[v][f]))
                          ELSE Return(IF IsInstanceOfClass(twin[v], builder[v].cls)
                                      THEN PyBool(\A f \in Compared :
                                                     builder[v][f] = twin[v][f])
                                      ELSE NotImplemented)]_vars

C27_Witness ==
    /\ last.op = "compare"
    /\ \A v \in Variants : ret[v] = Return(PyBool(TRUE))
    /\ \A v \in {"async", "legacy"} :
          /\ Links(builder[v]) = <<Url(1), Url(2)>>
          /\ Links(twin[v]) = <<None, None>>
          /\ builder[v].params # {}

\* The requests of a log that are lookups, and those that are POSTs.
Gets(log) == SelectSeq(log, LAMBDA r : r.method = "GET")
Posts(log) == SelectSeq(log, LAMBDA r : r.method = "POST")

\* The transaction whose memo and operations the check reads.
Inner(envelope) ==
    IF envelope.transaction.cls = "FeeBumpTransaction"
    THEN envelope.transaction.inner_transaction_envelope.transaction
    ELSE envelope.transaction
HasMemo(tx) == tx.memo.t \notin {"NoneType", "NoneMemo"}

\* The positions of the operations whose destination is looked up: the
\* first payment, account-merge or path-payment operation with each
\* destination that is not a muxed address.
PaymentKinds ==
    {"Payment", "AccountMerge", "PathPaymentStrictSend", "PathPaymentStrictReceive"}
LookedUp(tx) ==
    {i \in 1..Len(tx.operations) :
        /\ tx.operations[i].cls \in PaymentKinds
        /\ Head(tx.operations[i].destination) # "M"
        /\ \A j \in 1..(i - 1) :
              ~(/\ tx.operations[j].cls \in PaymentKinds
                /\ tx.operations[j].destination = tx.operations[i].destination)}
NthLookedUp(tx, k) ==
    CHOOSE i \in LookedUp(tx) : Cardinality({j \in LookedUp(tx) : j < i}) = k - 1
LookupUrl(destination) == HorizonUrl \o "accounts/" \o StrOf(destination)

\* The answer says the account requires a memo / is not found.
RequiresMemo(a) ==
    /\ a.t = "return"
    /\ a.v.status_code = 200
    /\ DictGet(DictGet(a.v.body, "data"), "config.memo_required") = PyStr("MQ==")
NotFound(a) == a.t = "return" /\ a.v.status_code = 404

\* C29: a submission sends at most one POST and nothing after it.  With
\* skip_memo_required_check true or a memo on the transaction it looks up
\* no account.  Otherwise its lookups are, in operation order and each
\* once, the distinct non-muxed destinations of the payment, account-merge
\* and path-payment operations, and the POST is sent only when all of
\* them have been looked up; a lookup answered with not-found goes on to
\* the next request; a lookup whose account data has config.memo_required
\* "MQ==" ends the submission with AccountRequiresMemoError and no POST.
C29_MemoCheckBeforePost ==
    /\ [](submit.st # "idle" =>
          LET tx == Inner(submit.envelope)
              gets == Gets(submit.log)
              checks == ~submit.skip /\ ~HasMemo(tx)
          IN  /\ \A i \in 1..Len(submit.log) :
                    submit.log[i].method = "POST" => i = Len(submit.log)
              /\ ~checks => gets = <<>>
              /\ checks =>
                    /\ Len(gets) <= Cardinality(LookedUp(tx))
                    /\ \A k \in 1..Len(gets) :
                          gets[k].url =
                              LookupUrl(tx.operations[NthLookedUp(tx, k)].destination)
                    /\ Posts(submit.log) # <<>> =>
                          Len(gets) = Cardinality(LookedUp(tx))
              /\ (submit.ret.t = "raise" /\ submit.ret.v = "AccountRequiresMemoError") =>
                    Posts(submit.log) = <<>>)
    /\ [][last'.op = "lookup" =>
            /\ RequiresMemo(last'.answer) =>
                  /\ submit'.st = "done"
                  /\ submit'.ret.t = "raise"
                  /\ submit'.ret.v = "AccountRequiresMemoError"
                  /\ submit'.log = submit.log
            /\ NotFound(last'.answer) =>
                  /\ submit'.st \in {"lookup", "post"}
                  /\ submit'.ret = None
                  /\ Len(submit'.log) = Len(submit.log) + 1]_vars

C29_Witness ==
    /\ last.op = "lookup"
    /\ NotFound(last.answer)
    /\ submit.st = "post"
    /\ ~submit.skip
    /\ submit.envelope.transaction.cls = "FeeBumpTransaction"
    /\ Inner(submit.envelope).operations =
          <<Operation("Payment", <<"G", "A">>),
            Operation("PathPaymentStrictReceive", <<"G", "B">>)>>
    /\ Len(submit.log) = 3
    /\ submit.log[1].url = LookupUrl(<<"G", "A">>)
    /\ submit.log[2].url = LookupUrl(<<"G", "B">>)
    /\ submit.log[3] =
          PostRequest(HorizonUrl \o "transactions", PyDict("tx" :> PyStr("AAAA")))

====
